---- MODULE Spec2Model ----
(***************************************************************************)
(* A model of the H language interpreter (src/h-lang): the scope chain of *)
(* interpreter_impl/environment.py and the statement handlers of          *)
(* interpreter_impl/evaluator.py.                                          *)
(*                                                                         *)
(* SpecEnv   the environment as the evaluator drives it: one action per    *)
(*           handler that reads or writes a scope, plus the entry and the  *)
(*           exit of a user-function call.                                 *)
(* SpecEval  the interpreter as its host drives it: execute(program) runs  *)
(*           the tree-walking evaluator to completion on one program.      *)
(***************************************************************************)
EXTENDS Integers, Sequences, FiniteSets, TLC

VARIABLES
    scopes,     \* the Environment objects alive: <<[variables, globals, enclosing]>>
    env,        \* Evaluator.env: index of the current scope
    frames,     \* the active _call_function activations, innermost last
    last,       \* what the last handler did (its inputs, result and pre-state)
    gshadow,    \* history: for each $name, the value last written and from what depth
    nops,       \* number of state-changing handlers run so far
    lists,      \* the HList objects: lists[r] is the element sequence of object r
    output_buffer,   \* Evaluator.output_buffer
    console,         \* ConsoleOutputHandler.buffer: every message handed to echo
    output_history,  \* HLangInterpreter.output_history
    test_results,    \* Evaluator.test_results
    run,        \* the last execute() call: its program, outcome and event log
    mark,       \* history: Len(console) at the last clear_output()
    failed,     \* history: some execute() call raised
    nexec,      \* number of execute() calls so far
    lop,        \* the last operation applied to values directly, with its operands
    lex,        \* the last tokenize() call: its source lines and what it produced
    par,        \* the last Parser(tokens).parse() call: its tokens and what it returned
    tmr,        \* ActionContext.timers, the Timer objects and their threads
    thr         \* the threads inside Evaluator._call_function, each with its locals

envVars == <<frames, last, gshadow, nops>>
evalVars == <<lists, output_buffer, console, output_history, test_results, run, mark,
              failed, nexec>>
hostVars == <<tmr, thr>>
pureVars == <<lop, lex, par, hostVars>>
vars == <<scopes, env, envVars, evalVars, pureVars>>

-----------------------------------------------------------------------------
(* Bounds *)

MaxDepth == 2
MaxOps == 5
MaxExecutes == 2

Names == {"x", "y"}
GlobalNames == {"g"}

-----------------------------------------------------------------------------
(* Runtime values: hl_types/primitive.py *)

HNumber(n) == [t |-> "number", v |-> n]
HString(s) == [t |-> "string", v |-> s]
HBoolean(b) == [t |-> "boolean", v |-> b]
HNull == [t |-> "null", v |-> 0]
\* An HList value is a reference r to the object lists[r]: objects have identity.
HList(r) == [t |-> "list", v |-> r]
FunctionValue(def) == [t |-> "function", v |-> def]

\* A mapping with no key (a new dict).
EmptyMap == <<>>

\* "no enclosing environment" (Python None)
None == 0

-----------------------------------------------------------------------------
(* interpreter_impl/environment.py *)

Environment(enclosing) ==
    [variables |-> EmptyMap, globals |-> EmptyMap, enclosing |-> enclosing]

\* self.variables[name] = value, in scope e only
Env_define(sc, e, name, value) ==
    [sc EXCEPT ![e].variables = (name :> value) @@ @]

RECURSIVE Env_exists(_, _, _)
Env_exists(sc, e, name) ==
    IF name \in DOMAIN sc[e].variables THEN TRUE
    ELSE IF sc[e].enclosing # None THEN Env_exists(sc, sc[e].enclosing, name)
    ELSE FALSE

\* [ok |-> FALSE] stands for the KeyError
RECURSIVE Env_get(_, _, _)
Env_get(sc, e, name) ==
    IF name \in DOMAIN sc[e].variables THEN [ok |-> TRUE, val |-> sc[e].variables[name]]
    ELSE IF sc[e].enclosing # None THEN Env_get(sc, sc[e].enclosing, name)
    ELSE [ok |-> FALSE, val |-> HNull]

RECURSIVE Env_get_global(_, _, _)
Env_get_global(sc, e, name) ==
    IF sc[e].enclosing # None THEN Env_get_global(sc, sc[e].enclosing, name)
    ELSE IF name \in DOMAIN sc[e].globals THEN [ok |-> TRUE, val |-> sc[e].globals[name]]
    ELSE [ok |-> FALSE, val |-> HNull]

\* A plausible slip: a miss at the outermost scope creates the binding there.
RECURSIVE Env_assign_creating(_, _, _, _)
Env_assign_creating(sc, e, name, value) ==
    IF name \in DOMAIN sc[e].variables
    THEN [ok |-> TRUE, scopes |-> [sc EXCEPT ![e].variables[name] = value]]
    ELSE IF sc[e].enclosing # None THEN Env_assign_creating(sc, sc[e].enclosing, name, value)
    ELSE [ok |-> TRUE, scopes |-> Env_define(sc, e, name, value)]

RECURSIVE Env_assign(_, _, _, _)
Env_assign(sc, e, name, value) ==
    IF name \in DOMAIN sc[e].variables
    THEN [ok |-> TRUE, scopes |-> [sc EXCEPT ![e].variables[name] = value]]
    ELSE IF sc[e].enclosing # None THEN Env_assign(sc, sc[e].enclosing, name, value)
    ELSE [ok |-> FALSE, scopes |-> sc]

\* A plausible slip: the write lands in the globals of the scope it was issued from.
Env_assign_global_here(sc, e, name, value) ==
    [sc EXCEPT ![e].globals = (name :> value) @@ @]

RECURSIVE Env_assign_global(_, _, _, _)
Env_assign_global(sc, e, name, value) ==
    IF sc[e].enclosing # None THEN Env_assign_global(sc, sc[e].enclosing, name, value)
    ELSE [sc EXCEPT ![e].globals = (name :> value) @@ @]

-----------------------------------------------------------------------------
(* AST nodes used as values: ast/statements.py *)

FunctionDefinition(name, parameters, body) ==
    [k |-> "FunctionDefinition", name |-> name, parameters |-> parameters, body |-> body]

-----------------------------------------------------------------------------
(* interpreter_impl/evaluator.py: the handlers' effect on the scope chain *)

\* The outermost scope of e's chain.
RECURSIVE RootOf(_, _)
RootOf(sc, e) == IF sc[e].enclosing # None THEN RootOf(sc, sc[e].enclosing) ELSE e

\* A plausible slip: a new variable is created in the outermost scope.
visit_assignment_identifier_at_root(sc, e, name, value) ==
    IF Env_exists(sc, e, name) THEN Env_assign(sc, e, name, value).scopes
    ELSE Env_define(sc, RootOf(sc, e), name, value)

\* A plausible slip: `set` always binds in the current scope.
visit_assignment_identifier_local(sc, e, name, value) ==
    Env_define(sc, e, name, value)

\* visit_assignment, target an Identifier
visit_assignment_identifier(sc, e, name, value) ==
    IF Env_exists(sc, e, name) THEN Env_assign(sc, e, name, value).scopes
    ELSE Env_define(sc, e, name, value)

\* visit_assignment, target a GlobalVariable
visit_assignment_global(sc, e, name, value) ==
    Env_assign_global(sc, e, name, value)

RECURSIVE BindParameters(_, _, _, _)
BindParameters(sc, e, parameters, args) ==
    IF parameters = <<>> THEN sc
    ELSE BindParameters(Env_define(sc, e, Head(parameters), Head(args)),
                        e, Tail(parameters), Tail(args))

\* The scope in which `name` is bound, seen from e (None when unbound).
RECURSIVE DefiningScope(_, _, _)
DefiningScope(sc, e, name) ==
    IF name \in DOMAIN sc[e].variables THEN e
    ELSE IF sc[e].enclosing # None THEN DefiningScope(sc, sc[e].enclosing, name)
    ELSE None

\* A plausible slip (or a deliberate closure): the new scope's parent is the
\* scope that holds the function's definition.
EnterFunctionLexical(sc, e, func, args) ==
    LET fe == Len(sc) + 1
        parent == DefiningScope(sc, e, func.name)
    IN [scopes |-> BindParameters(Append(sc, Environment(parent)), fe, func.parameters, args),
        env |-> fe,
        previous_env |-> e]

\* _call_function up to the switch: func_env = Environment(self.env), the
\* parameters bound in it, previous_env = self.env, self.env = func_env.
EnterFunction(sc, e, func, args) ==
    LET fe == Len(sc) + 1
    IN [scopes |-> BindParameters(Append(sc, Environment(e)), fe, func.parameters, args),
        env |-> fe,
        previous_env |-> e]

-----------------------------------------------------------------------------
(* SpecEnv *)

\* The functions visit_program registers in the root scope before any statement runs.
FuncF == FunctionDefinition("f", <<>>, <<>>)
FuncG == FunctionDefinition("g", <<"x">>, <<>>)
EnvFunctions == {FuncF, FuncG}

\* Every value written is new, so a stale value is told from a fresh one.
NextValue == HNumber(nops + 1)

Op(op, name, ok, val) ==
    [op |-> op, name |-> name, ok |-> ok, val |-> val,
     env |-> env, pre |-> scopes, written |-> {}, assigned |-> {}]

\* Every active call notes the identifier a `set`, or a direct assign, names.
NoteWritten(name) ==
    [k \in DOMAIN frames |-> [frames[k] EXCEPT !.written = @ \cup {name}]]

NoteAssigned(name) ==
    [k \in DOMAIN frames |-> [frames[k] EXCEPT !.assigned = @ \cup {name}]]

RECURSIVE RegisterFunctions(_, _)
RegisterFunctions(sc, funcs) ==
    IF funcs = {} THEN sc
    ELSE LET f == CHOOSE d \in funcs : TRUE
         IN RegisterFunctions(Env_define(sc, 1, f.name, FunctionValue(f)), funcs \ {f})

\* the names the program gives its timers
TimerNames == {"a", "b"}

\* the thread that runs the program and the thread of its `run in parallel`
Threads == {"main", "worker"}

\* No operation has been applied directly, nothing has been tokenized or
\* parsed, no timer has been started and no thread is in a call.
PureIdle ==
    /\ lop = [op |-> "none", n |-> 0]
    /\ lex = [src |-> <<>>, op |-> "none", at |-> 0,
              out |-> [tokens |-> <<>>, indent_stack |-> <<0>>, err |-> "",
                       levels |-> <<0>>],
              prev |-> [tokens |-> <<>>, indent_stack |-> <<0>>, err |-> "",
                        levels |-> <<0>>],
              first |-> [expr |-> [k |-> "Literal", value |-> "None"], current |-> 0,
                         err |-> "(not parsed)"]]
    /\ par = [tokens |-> <<>>, op |-> "none",
              out |-> [node |-> <<>>, has |-> FALSE, current |-> 0,
                       err |-> "(not parsed)", log |-> <<>>]]
    /\ tmr = [timers |-> [name \in TimerNames |-> 0], objs |-> <<>>,
              main |-> [pc |-> "idle", name |-> "", o |-> 0, ret |-> "None"],
              stops |-> {}]
    /\ thr = [spawned |-> FALSE, made |-> 0, stacks |-> [t \in Threads |-> <<>>]]

InitEnv ==
    /\ scopes = RegisterFunctions(<<Environment(None)>>, EnvFunctions)
    /\ env = 1
    /\ frames = <<>>
    /\ last = [op |-> "init", name |-> "", ok |-> TRUE, val |-> HNull,
               env |-> 1, pre |-> <<>>, written |-> {}, assigned |-> {}]
    /\ gshadow = EmptyMap
    /\ nops = 0
    /\ lists = <<>>
    /\ output_buffer = <<>>
    /\ console = <<>>
    /\ output_history = <<>>
    /\ test_results = <<>>
    /\ run = [prog |-> 0, sig |-> "none", val |-> HNull, log |-> <<>>,
               calls |-> <<>>,
               out0 |-> 0, final |-> <<>>]
    /\ mark = 0
    /\ failed = FALSE
    /\ nexec = 0
    /\ PureIdle

\* set <name> to <value>
VisitAssignment(name) ==
    /\ nops < MaxOps
    /\ scopes' = visit_assignment_identifier(scopes, env, name, NextValue)
    /\ last' = Op("set", name, TRUE, NextValue)
    /\ frames' = NoteWritten(name)
    /\ nops' = nops + 1
    /\ UNCHANGED <<env, gshadow>>

\* set $<name> to <value>
VisitAssignmentGlobal(name) ==
    /\ nops < MaxOps
    /\ scopes' = visit_assignment_global(scopes, env, name, NextValue)
    /\ last' = Op("gset", name, TRUE, NextValue)
    /\ gshadow' = (name :> [val |-> NextValue, depth |-> Len(frames)]) @@ gshadow
    /\ nops' = nops + 1
    /\ UNCHANGED <<env, frames>>

\* Environment.assign(name, value) on the current scope
EnvAssign(name) ==
    /\ nops < MaxOps
    /\ LET r == Env_assign(scopes, env, name, NextValue)
       IN /\ scopes' = r.scopes
          /\ last' = Op("assign", name, r.ok, NextValue)
    /\ frames' = NoteAssigned(name)
    /\ nops' = nops + 1
    /\ UNCHANGED <<env, gshadow>>

\* a read of <name>
VisitIdentifier(name) ==
    /\ LET r == Env_get(scopes, env, name)
       IN last' = Op("get", name, r.ok, r.val)
    /\ UNCHANGED <<scopes, env, frames, gshadow, nops>>

\* a read of $<name>
VisitGlobalVariable(name) ==
    /\ LET r == Env_get_global(scopes, env, name)
       IN last' = Op("gget", name, r.ok, r.val)
    /\ UNCHANGED <<scopes, env, frames, gshadow, nops>>

\* <fname>(<args>): visit_function_call and _call_function up to the body
CallFunction(fname) ==
    /\ nops < MaxOps
    /\ Len(frames) < MaxDepth
    /\ LET f == Env_get(scopes, env, fname)
       IN /\ f.ok
          /\ f.val.t = "function"
          /\ LET func == f.val.v
                 args == [i \in 1..Len(func.parameters) |-> NextValue]
                 r == EnterFunction(scopes, env, func, args)
             IN /\ scopes' = r.scopes
                /\ env' = r.env
                /\ frames' = Append(frames, [previous_env |-> r.previous_env,
                                             func |-> func.name,
                                             entry |-> scopes,
                                             written |-> {},
                                             assigned |-> {}])
                /\ last' = Op("call", fname, TRUE, HNull)
    /\ nops' = nops + 1
    /\ UNCHANGED gshadow

\* the end of a call (fall-through or return): finally: self.env = previous_env
ReturnFromCall ==
    /\ frames # <<>>
    /\ LET fr == frames[Len(frames)]
       IN /\ env' = fr.previous_env
          /\ last' = [op |-> "return", name |-> fr.func, ok |-> TRUE, val |-> HNull,
                      env |-> env, pre |-> fr.entry, written |-> fr.written,
                      assigned |-> fr.assigned]
    /\ scopes' = SubSeq(scopes, 1, Len(scopes) - 1)
    /\ frames' = SubSeq(frames, 1, Len(frames) - 1)
    /\ UNCHANGED <<gshadow, nops>>

NextEnv ==
    \/ \E name \in Names : VisitAssignment(name) /\ UNCHANGED <<evalVars, pureVars>>
    \/ \E name \in GlobalNames : VisitAssignmentGlobal(name) /\ UNCHANGED <<evalVars, pureVars>>
    \/ \E name \in Names : EnvAssign(name) /\ UNCHANGED <<evalVars, pureVars>>
    \/ \E name \in Names : VisitIdentifier(name) /\ UNCHANGED <<evalVars, pureVars>>
    \/ \E name \in GlobalNames : VisitGlobalVariable(name) /\ UNCHANGED <<evalVars, pureVars>>
    \/ \E f \in EnvFunctions : CallFunction(f.name) /\ UNCHANGED <<evalVars, pureVars>>
    \/ ReturnFromCall /\ UNCHANGED <<evalVars, pureVars>>

SpecEnv == InitEnv /\ [][NextEnv]_vars

-----------------------------------------------------------------------------
(* Notions the properties are stated with *)

\* The scopes seen from e, nearest first, following the enclosing links.
RECURSIVE Chain(_, _)
Chain(sc, e) ==
    IF sc[e].enclosing = None THEN <<e>> ELSE <<e>> \o Chain(sc, sc[e].enclosing)

ChainSet(sc, e) == {Chain(sc, e)[i] : i \in DOMAIN Chain(sc, e)}

Min(S) == CHOOSE m \in S : \A k \in S : m <= k

\* The positions of `chain` whose scope binds name.
Hits(sc, chain, name) == {i \in DOMAIN chain : name \in DOMAIN sc[chain[i]].variables}

\* post is pre with the binding of x in scope n set to v, and nothing else changed.
OnlyBindingChanged(pre, post, n, x, v) ==
    /\ Len(post) = Len(pre)
    /\ \A s \in DOMAIN pre :
        /\ post[s].globals = pre[s].globals
        /\ post[s].enclosing = pre[s].enclosing
        /\ DOMAIN post[s].variables = DOMAIN pre[s].variables \cup (IF s = n THEN {x} ELSE {})
        /\ \A m \in DOMAIN post[s].variables :
              IF s = n /\ m = x THEN post[s].variables[m] = v
              ELSE post[s].variables[m] = pre[s].variables[m]

\* The scopes the active calls were made from, innermost call first, after the current one.
DynamicChain ==
    <<env>> \o [i \in 1..Len(frames) |-> frames[Len(frames) + 1 - i].previous_env]

-----------------------------------------------------------------------------
(* C1 *)

\* C1 as stated: after a user-function call returns, every variable binding in
\* the caller's scope chain has the value it had before the call, whatever
\* `set <identifier> to ...` statements the body executed.
C1_CallerBindingsUntouched ==
    (last.op = "return" /\ last.assigned = {}) =>
        \A s \in ChainSet(last.pre, env) : scopes[s].variables = last.pre[s].variables

\* C1 amended: after a user-function call returns, no scope of the caller's
\* chain has gained or lost a binding, and every binding whose identifier no
\* statement of the call targeted has the value it had before the call.
C1_CallerBindingsKept ==
    last.op = "return" =>
        \A s \in ChainSet(last.pre, env) :
            /\ DOMAIN scopes[s].variables = DOMAIN last.pre[s].variables
            /\ \A n \in DOMAIN scopes[s].variables :
                  n \notin (last.written \cup last.assigned) =>
                      scopes[s].variables[n] = last.pre[s].variables[n]

\* A call has returned whose body executed only `set` statements: one created
\* a variable, which the caller does not see, and one named an identifier the
\* caller had bound, which now holds the value the body gave it.
C1_Witness ==
    /\ last.op = "return"
    /\ last.assigned = {}
    /\ \E n \in last.written : ~Env_exists(scopes, env, n)
    /\ \E n \in last.written :
          /\ n \in DOMAIN last.pre[env].variables
          /\ scopes[env].variables[n] # last.pre[env].variables[n]

-----------------------------------------------------------------------------
(* C2 *)

\* C2: a $name write or read from any depth operates on the root scope: no
\* non-root scope ever holds a global, the root's global mapping holds for each
\* name the value last written from any depth, and a read from any depth
\* returns that value (and fails exactly when the name was never written).
C2_GlobalsInRootOnly ==
    /\ \A s \in DOMAIN scopes : scopes[s].enclosing # None => scopes[s].globals = EmptyMap
    /\ DOMAIN scopes[1].globals = DOMAIN gshadow
    /\ \A n \in DOMAIN gshadow : scopes[1].globals[n] = gshadow[n].val
    /\ last.op = "gget" =>
          /\ last.ok = (last.name \in DOMAIN gshadow)
          /\ last.ok => last.val = gshadow[last.name].val

\* A read at top level returns a value written two calls deep, after both calls returned.
C2_Witness ==
    /\ last.op = "gget"
    /\ last.ok
    /\ frames = <<>>
    /\ gshadow[last.name].depth = 2
    /\ last.val = gshadow[last.name].val

-----------------------------------------------------------------------------
(* C3 *)

\* C3: `set x to v` in scope S: when no scope on S's chain defines x, x becomes
\* defined in S and nothing else changes; otherwise the nearest scope defining x
\* is updated and no binding is created anywhere.
C3_SetCreatesOrUpdates ==
    last.op = "set" =>
        LET chain == Chain(last.pre, last.env)
            hits == Hits(last.pre, chain, last.name)
        IN IF hits = {}
           THEN OnlyBindingChanged(last.pre, scopes, last.env, last.name, last.val)
           ELSE /\ OnlyBindingChanged(last.pre, scopes, chain[Min(hits)], last.name, last.val)
                /\ \A s \in DOMAIN scopes :
                      DOMAIN scopes[s].variables = DOMAIN last.pre[s].variables

\* A `set x` two calls deep, x being bound both by the caller and by the root:
\* the caller's binding (the nearest) is the one updated.
C3_Witness ==
    /\ last.op = "set"
    /\ last.env = 3
    /\ last.name \notin DOMAIN last.pre[3].variables
    /\ last.name \in DOMAIN last.pre[2].variables
    /\ last.name \in DOMAIN last.pre[1].variables
    /\ scopes[2].variables[last.name] = last.val
    /\ scopes[1].variables[last.name] # last.val

-----------------------------------------------------------------------------
(* C4 *)

\* C4: Environment.assign(name, value) updates exactly the nearest scope of the
\* chain that defines name; when none does it fails and changes no scope.
C4_AssignNearestOrFail ==
    last.op = "assign" =>
        LET chain == Chain(last.pre, last.env)
            hits == Hits(last.pre, chain, last.name)
        IN IF hits = {}
           THEN ~last.ok /\ scopes = last.pre
           ELSE /\ last.ok
                /\ OnlyBindingChanged(last.pre, scopes, chain[Min(hits)], last.name, last.val)
                /\ \A s \in DOMAIN scopes :
                      DOMAIN scopes[s].variables = DOMAIN last.pre[s].variables

\* An assign issued two calls deep that found the name in no scope and failed.
C4_Witness ==
    /\ last.op = "assign"
    /\ ~last.ok
    /\ last.env = 3
    /\ \E n \in Names \ {last.name} : Env_exists(scopes, env, n)

-----------------------------------------------------------------------------
(* C5 *)

\* C5: a call runs its body in a new scope whose parent is the scope current
\* at the call site, holding exactly the parameters; a read resolves to the
\* binding of the innermost active call that has one (the callers' bindings,
\* from the nearest caller outwards), and fails when none has.
C5_CallSiteScoping ==
    /\ last.op = "call" =>
          /\ env = Len(scopes)
          /\ env \notin DOMAIN last.pre
          /\ SubSeq(scopes, 1, Len(last.pre)) = last.pre
          /\ scopes[env].enclosing = last.env
          /\ frames[Len(frames)].previous_env = last.env
          /\ \E f \in EnvFunctions :
                /\ f.name = last.name
                /\ DOMAIN scopes[env].variables = {f.parameters[i] : i \in DOMAIN f.parameters}
    /\ last.op = "get" =>
          LET hits == Hits(scopes, DynamicChain, last.name)
          IN IF hits = {} THEN ~last.ok
             ELSE /\ last.ok
                  /\ last.val = scopes[DynamicChain[Min(hits)]].variables[last.name]

\* g has a local, g called f, and f's read of that name returned g's local,
\* which is not what the scope holding f's definition sees.
C5_Witness ==
    /\ last.op = "get"
    /\ last.ok
    /\ Len(frames) = 2
    /\ frames[1].func = "g"
    /\ frames[2].func = "f"
    /\ last.name \notin DOMAIN scopes[env].variables
    /\ last.name \in DOMAIN scopes[frames[2].previous_env].variables
    /\ last.val = scopes[frames[2].previous_env].variables[last.name]
    /\ Env_get(scopes, DefiningScope(scopes, env, "f"), last.name).ok
    /\ Env_get(scopes, DefiningScope(scopes, env, "f"), last.name).val # last.val

(***************************************************************************)
(* The value model: hl_types/primitive.py and types/operations.py.         *)
(* Numbers are the integral doubles; '/' is left out because its results   *)
(* leave the integers. Ordering of two strings is left out as well.        *)
(***************************************************************************)

\* str(int(self.value)) spelled out, so that the model never relies on how
\* a negative number happens to be printed.
HNumber_to_string(n) == IF n < 0 THEN "-" \o ToString(0 - n) ELSE ToString(n)

RECURSIVE to_string(_, _)
RECURSIVE join_to_string(_, _, _)
join_to_string(elems, i, ls) ==
    IF i > Len(elems) THEN ""
    ELSE (IF i > 1 THEN ", " ELSE "") \o to_string(elems[i], ls)
         \o join_to_string(elems, i + 1, ls)

to_string(value, ls) ==
    CASE value.t = "number" -> HNumber_to_string(value.v)
      [] value.t = "string" -> value.v
      [] value.t = "boolean" -> IF value.v THEN "true" ELSE "false"
      [] value.t = "null" -> "null"
      [] value.t = "list" -> "[" \o join_to_string(ls[value.v], 1, ls) \o "]"

\* HValue.__repr__: type_name(repr(value)); a float prints with its ".0"
RECURSIVE repr(_, _)
RECURSIVE join_repr(_, _, _)
join_repr(elems, i, ls) ==
    IF i > Len(elems) THEN ""
    ELSE (IF i > 1 THEN ", " ELSE "") \o repr(elems[i], ls) \o join_repr(elems, i + 1, ls)

repr(value, ls) ==
    CASE value.t = "number" -> "number(" \o HNumber_to_string(value.v) \o ".0)"
      [] value.t = "string" -> "string('" \o value.v \o "')"
      [] value.t = "boolean" -> "boolean(" \o (IF value.v THEN "True" ELSE "False") \o ")"
      [] value.t = "null" -> "null(None)"
      [] value.t = "list" -> "list([" \o join_repr(ls[value.v], 1, ls) \o "])"

type_name(value) == value.t

is_truthy(value, ls) ==
    CASE value.t = "number" -> value.v # 0
      [] value.t = "string" -> value.v # ""
      [] value.t = "boolean" -> value.v
      [] value.t = "null" -> FALSE
      [] value.t = "list" -> Len(ls[value.v]) > 0
      [] OTHER -> TRUE

\* HValue.__eq__ compares the payloads with Python's ==, whatever the types:
\* True == 1.0 and False == 0.0 hold in Python, lists compare element-wise.
PyNumeric(value) ==
    IF value.t = "boolean" THEN (IF value.v THEN 1 ELSE 0) ELSE value.v

RECURSIVE HValue_eq(_, _, _)
RECURSIVE elems_eq(_, _, _, _)
elems_eq(xs, ys, i, ls) ==
    IF i > Len(xs) THEN TRUE
    ELSE HValue_eq(xs[i], ys[i], ls) /\ elems_eq(xs, ys, i + 1, ls)

HValue_eq(a, b, ls) ==
    CASE a.t \in {"number", "boolean"} /\ b.t \in {"number", "boolean"} ->
            PyNumeric(a) = PyNumeric(b)
      [] a.t = "string" /\ b.t = "string" -> a.v = b.v
      [] a.t = "null" /\ b.t = "null" -> TRUE
      [] a.t = "list" /\ b.t = "list" ->
            Len(ls[a.v]) = Len(ls[b.v]) /\ elems_eq(ls[a.v], ls[b.v], 1, ls)
      [] a.t = "function" /\ b.t = "function" -> a.v = b.v
      [] OTHER -> FALSE

\* float % float: the result takes the sign of the divisor
PyMod(a, b) == IF b > 0 THEN a % b ELSE 0 - ((0 - a) % (0 - b))

\* HList(elements): a new object; the heap grows by one
HList_new(elems, ls) == [val |-> HList(Len(ls) + 1), lists |-> Append(ls, elems)]

\* copy(): a new object for the list and, recursively, for every element
RECURSIVE HValue_copy(_, _)
RECURSIVE copy_elems(_, _, _, _)
copy_elems(elems, i, acc, ls) ==
    IF i > Len(elems) THEN [elems |-> acc, lists |-> ls]
    ELSE LET c == HValue_copy(elems[i], ls)
         IN copy_elems(elems, i + 1, Append(acc, c.val), c.lists)

HValue_copy(value, ls) ==
    IF value.t = "list"
    THEN LET c == copy_elems(ls[value.v], 1, <<>>, ls)
         IN HList_new(c.elems, c.lists)
    ELSE [val |-> value, lists |-> ls]

\* append() on the receiver itself (not the code)
HList_append_in_place(lst, element, ls) ==
    [val |-> lst, lists |-> [ls EXCEPT ![lst.v] = Append(@, element)]]

\* append(): the copy gets the element, the receiver is not touched
HList_append(lst, element, ls) ==
    LET c == HValue_copy(lst, ls)
    IN [val |-> c.val,
        lists |-> [c.lists EXCEPT ![c.val.v] = Append(@, element)]]

\* a variant without the wrap of negative indexes
HList_index_plain(index, length) == index

\* index normalisation shared by get_element and set_element (0-based)
HList_index(index, length) == IF index < 0 THEN length + index ELSE index

HList_in_range(index, length) ==
    HList_index(index, length) >= 0 /\ HList_index(index, length) < length

HList_get_element(lst, index, ls) ==
    ls[lst.v][HList_index(index, Len(ls[lst.v])) + 1]

\* set_element(): self.value[index] = value, in place in the receiver
HList_set_element(lst, index, value, ls) ==
    [ls EXCEPT ![lst.v][HList_index(index, Len(ls[lst.v])) + 1] = value]

(***************************************************************************)
(* The abstract syntax: core/ast/expressions.py and core/ast/statements.py *)
(***************************************************************************)
Literal(value) == [k |-> "Literal", value |-> value]
Identifier(name) == [k |-> "Identifier", name |-> name]
BinaryOperation(left, operator, right) ==
    [k |-> "BinaryOperation", left |-> left, operator |-> operator, right |-> right]
Comparison(left, operator, right) ==
    [k |-> "Comparison", left |-> left, operator |-> operator, right |-> right]
LogicalOperation(left, operator, right) ==
    [k |-> "LogicalOperation", left |-> left, operator |-> operator, right |-> right]
ListIndex(list_expr, index) == [k |-> "ListIndex", list_expr |-> list_expr, index |-> index]
FunctionCall(function_name, arguments) ==
    [k |-> "FunctionCall", function_name |-> function_name, arguments |-> arguments]
ListLiteral(elements) == [k |-> "ListLiteral", elements |-> elements]

ExpressionStatement(expression) == [k |-> "ExpressionStatement", expression |-> expression]
Assignment(target, value) == [k |-> "Assignment", target |-> target, value |-> value]
\* elif_branches is a sequence of <<condition, body>> pairs; else_branch may be <<>>
IfStatement(condition, then_branch, elif_branches, else_branch) ==
    [k |-> "IfStatement", condition |-> condition, then_branch |-> then_branch,
     elif_branches |-> elif_branches, else_branch |-> else_branch]
WhileStatement(condition, body) ==
    [k |-> "WhileStatement", condition |-> condition, body |-> body]
\* has_value tells `return` from `return <expr>`
ReturnStatement(has_value, value) ==
    [k |-> "ReturnStatement", has_value |-> has_value, value |-> value]
EchoStatement(expression) == [k |-> "EchoStatement", expression |-> expression]
TestStatement(name, body) == [k |-> "TestStatement", name |-> name, body |-> body]
EndGameStatement == [k |-> "EndGameStatement"]

RECURSIVE CollectFunctions(_, _, _)
CollectFunctions(statements, i, acc) ==
    IF i > Len(statements) THEN acc
    ELSE CollectFunctions(statements, i + 1,
            IF statements[i].k = "FunctionDefinition"
            THEN (statements[i].name :> statements[i]) @@ acc
            ELSE acc)

\* Parser.parse: every top-level declaration is appended to statements, and a
\* FunctionDefinition is entered in functions under its name as well (a later
\* definition of the same name replaces the earlier one).
Program(statements) ==
    [statements |-> statements, functions |-> CollectFunctions(statements, 1, EmptyMap)]

(***************************************************************************)
(* The evaluator's state while it walks a program, and how a visit ends.   *)
(*   sig = "normal"  the visit returned, val is its value                  *)
(*   sig = "return"  ReturnException(val) is propagating                   *)
(*   sig = "error"   HRuntimeError (or another Python Exception) with      *)
(*                   message val is propagating                            *)
(* ctx and log are history: the constructs being executed, and the events  *)
(* (statement starts, loop tests, raises, call exits, writes) in execution *)
(* order; an event keeps a snapshot of the state where a property needs it.*)
(***************************************************************************)
Snapshot(st) ==
    [scopes |-> st.scopes, env |-> st.env, lists |-> st.lists, out |-> st.out,
     console |-> st.console, results |-> st.results]

Event(st, e, val, n) ==
    [e |-> e, val |-> val, n |-> n, ctx |-> st.ctx,
     snap |-> IF e \in {"error", "write", "assign", "top", "left", "right", "logic", "equals", "add",
                           "endgame"} THEN Snapshot(st) ELSE <<>>]

Log(st, e, val, n) == [st EXCEPT !.log = Append(@, Event(st, e, val, n))]

Push(st, c) == [st EXCEPT !.ctx = Append(@, c)]

Normal(st, val) == [st |-> st, sig |-> "normal", val |-> val]

\* raise HRuntimeError(msg)
HRuntimeError(st, msg) ==
    [st |-> Log(st, "error", HString(msg), 0), sig |-> "error", val |-> HString(msg)]

\* raise ReturnException(value)
ReturnException(st, value) ==
    [st |-> Log(st, "return", value, 0), sig |-> "return", val |-> value]

(***************************************************************************)
(* types/operations.py                                                     *)
(***************************************************************************)
Operations_add(left, right, st) ==
    CASE left.t = "number" /\ right.t = "number" -> Normal(st, HNumber(left.v + right.v))
      [] left.t = "string" /\ right.t = "string" -> Normal(st, HString(left.v \o right.v))
      [] left.t = "list" ->
            LET a == HList_append(left, right, st.lists)
            IN Normal([st EXCEPT !.lists = a.lists], a.val)
      [] OTHER -> HRuntimeError(st, "Cannot add " \o type_name(left) \o " and "
                                     \o type_name(right))

Operations_subtract(left, right, st) ==
    IF left.t = "number" /\ right.t = "number"
    THEN Normal(st, HNumber(left.v - right.v))
    ELSE HRuntimeError(st, "Cannot subtract " \o type_name(right) \o " from "
                            \o type_name(left))

Operations_multiply(left, right, st) ==
    IF left.t = "number" /\ right.t = "number"
    THEN Normal(st, HNumber(left.v * right.v))
    ELSE HRuntimeError(st, "Cannot multiply " \o type_name(left) \o " and "
                            \o type_name(right))

Operations_modulo(left, right, st) ==
    IF left.t = "number" /\ right.t = "number"
    THEN IF right.v = 0 THEN HRuntimeError(st, "Modulo by zero")
         ELSE Normal(st, HNumber(PyMod(left.v, right.v)))
    ELSE HRuntimeError(st, "Cannot modulo " \o type_name(left) \o " by "
                            \o type_name(right))

\* `left == right`; the history keeps the operands and the answer (n = 1: true)
equals_answer(left, right, st, eq) ==
    Normal(Log(st, "equals", <<left, right>>, IF eq THEN 1 ELSE 0), HBoolean(eq))

Operations_equals(left, right, st) ==
    equals_answer(left, right, st, HValue_eq(left, right, st.lists))

Operations_not_equals(left, right, st) ==
    Normal(st, HBoolean(~HValue_eq(left, right, st.lists)))

\* greater_than, less_than, greater_equal, less_equal on two numbers
Operations_order(op, left, right, st) ==
    IF left.t = "number" /\ right.t = "number"
    THEN Normal(st, HBoolean(CASE op = ">" -> left.v > right.v
                               [] op = "<" -> left.v < right.v
                               [] op = ">=" -> left.v >= right.v
                               [] op = "<=" -> left.v <= right.v))
    ELSE HRuntimeError(st, "Cannot compare " \o type_name(left) \o " and "
                            \o type_name(right))

COMPARISON_OPERATORS == {"==", "!=", ">", "<", ">=", "<="}

Operations_list_index(lst, index, st) ==
    IF lst.t # "list" THEN HRuntimeError(st, "Cannot index " \o type_name(lst))
    ELSE IF index.t # "number"
    THEN HRuntimeError(st, "List index must be a number, got " \o type_name(index))
    ELSE IF ~HList_in_range(index.v, Len(st.lists[lst.v]))
    THEN HRuntimeError(st, "List index out of range")
    ELSE Normal(st, HList_get_element(lst, index.v, st.lists))

Operations_list_set(lst, index, value, st) ==
    IF lst.t # "list" THEN HRuntimeError(st, "Cannot index assign to " \o type_name(lst))
    ELSE IF index.t # "number" THEN HRuntimeError(st, "List index must be a number")
    ELSE IF ~HList_in_range(index.v, Len(st.lists[lst.v]))
    THEN HRuntimeError(st, "List index out of range")
    ELSE Normal([st EXCEPT !.lists = HList_set_element(lst, index.v, value, @)], HNull)

(***************************************************************************)
(* The evaluator: core/interpreter_impl/evaluator.py. One operator per     *)
(* visit method; each takes the node and the state and yields the state    *)
(* after the visit together with how the visit ended.                      *)
(***************************************************************************)
GlobalVariable(name) == [k |-> "GlobalVariable", name |-> name]

\* Sequencing inside a method body: when the step r raised, the method is left
\* with what r raised; otherwise the rest of the body, K, runs on r's outcome.
Then(r, K(_)) == IF r.sig # "normal" THEN r ELSE K(r)

\* value.is_truthy(); a FunctionDefinition bound to a name has no such method
Truthy(value, st) ==
    IF value.t = "function"
    THEN HRuntimeError(st, "'FunctionDefinition' object has no attribute 'is_truthy'")
    ELSE Normal(st, is_truthy(value, st.lists))

\* the registered built-ins that the model covers
BuiltinNames == {"len", "type"}

\* self.builtins[name](*args)
call_builtin(name, args, st) ==
    IF Len(args) # 1 THEN HRuntimeError(st, name \o "() takes 1 positional argument")
    ELSE IF name = "len"
    THEN IF args[1].t = "string" THEN Normal(st, HNumber(Len(args[1].v)))
         ELSE IF args[1].t = "list" THEN Normal(st, HNumber(Len(st.lists[args[1].v])))
         ELSE HRuntimeError(st, "len() requires string or list, got " \o type_name(args[1]))
    ELSE Normal(st, HString(type_name(args[1])))

RECURSIVE accept_expr(_, _)
RECURSIVE accept_all(_, _, _, _)
RECURSIVE accept_stmt(_, _)
RECURSIVE exec_block(_, _, _)
RECURSIVE while_loop(_, _)
RECURSIVE while_loop_catching(_, _)
RECURSIVE elif_chain(_, _, _)
RECURSIVE bind_arguments(_, _, _, _, _)

visit_literal(expr, st) == Normal(st, expr.value)

visit_identifier(expr, st) ==
    LET g == Env_get(st.scopes, st.env, expr.name)
    IN IF g.ok THEN Normal(st, g.val)
       ELSE HRuntimeError(st, "Undefined variable: " \o expr.name)

visit_global_variable(expr, st) ==
    LET g == Env_get_global(st.scopes, st.env, expr.name)
    IN IF g.ok THEN Normal(st, g.val)
       ELSE HRuntimeError(st, "Undefined global variable: $" \o expr.name)

visit_binary_operation(expr, st) ==
    Then(accept_expr(expr.left, st), LAMBDA left :
    Then(accept_expr(expr.right, left.st), LAMBDA right :
        CASE expr.operator = "+" ->
                Then(Operations_add(left.val, right.val,
                                    Log(right.st, "add", <<left.val, right.val>>, 0)),
                     LAMBDA sum : Normal(Log(sum.st, "added", sum.val, 0), sum.val))
          [] expr.operator = "-" -> Operations_subtract(left.val, right.val, right.st)
          [] expr.operator = "*" -> Operations_multiply(left.val, right.val, right.st)
          [] expr.operator = "%" -> Operations_modulo(left.val, right.val, right.st)
          [] OTHER -> HRuntimeError(right.st, "Unknown binary operator: "
                                               \o expr.operator)))

visit_comparison(expr, st) ==
    Then(accept_expr(expr.left, st), LAMBDA left :
    Then(accept_expr(expr.right, left.st), LAMBDA right :
        IF expr.operator \notin COMPARISON_OPERATORS
        THEN HRuntimeError(right.st, "Unknown comparison operator: " \o expr.operator)
        ELSE CASE expr.operator = "==" -> Operations_equals(left.val, right.val, right.st)
               [] expr.operator = "!=" ->
                        Operations_not_equals(left.val, right.val, right.st)
               [] OTHER ->
                        Operations_order(expr.operator, left.val, right.val, right.st)))

\* History of one `a and b` / `a or b`: "left" once the truthiness of a is
\* known (n = 1 for and, 2 for or), "right" once b has returned its value,
\* "logic" with the value the operation returns.
logical_code(operator) == IF operator = "and" THEN 1 ELSE IF operator = "or" THEN 2 ELSE 0

logical_right(expr, st) ==
    Then(accept_expr(expr.right, st), LAMBDA right :
    Then(Truthy(right.val, Log(right.st, "right", right.val, 0)), LAMBDA rt :
        Normal(Log(rt.st, "logic", HBoolean(rt.val), 0), HBoolean(rt.val))))

\* a variant that evaluates the right operand before it looks at the left one
visit_logical_operation_eager(expr, st) ==
    Then(accept_expr(expr.left, st), LAMBDA left :
    Then(Truthy(left.val, left.st), LAMBDA lt :
    Then(logical_right(expr, Log(left.st, "left", HBoolean(lt.val),
                                 logical_code(expr.operator))), LAMBDA r :
        IF expr.operator = "and" /\ ~lt.val THEN Normal(r.st, HBoolean(FALSE))
        ELSE IF expr.operator = "or" /\ lt.val THEN Normal(r.st, HBoolean(TRUE))
        ELSE r)))

logical_decide(expr, truthy, st) ==
    IF expr.operator = "and" /\ ~truthy
    THEN Normal(Log(st, "logic", HBoolean(FALSE), 0), HBoolean(FALSE))
    ELSE IF expr.operator = "or" /\ truthy
    THEN Normal(Log(st, "logic", HBoolean(TRUE), 0), HBoolean(TRUE))
    ELSE IF expr.operator \notin {"and", "or"}
    THEN HRuntimeError(st, "Unknown logical operator: " \o expr.operator)
    ELSE logical_right(expr, st)

visit_logical_operation(expr, st) ==
    Then(accept_expr(expr.left, st), LAMBDA left :
    Then(Truthy(left.val, left.st), LAMBDA lt :
        logical_decide(expr, lt.val,
                       Log(left.st, "left", HBoolean(lt.val), logical_code(expr.operator)))))

visit_list_index(expr, st) ==
    Then(accept_expr(expr.list_expr, st), LAMBDA lst :
    Then(accept_expr(expr.index, lst.st), LAMBDA index :
        Operations_list_index(lst.val, index.val, index.st)))

\* HList(elements) for the values of the element expressions
new_list(elems, st) ==
    Normal([st EXCEPT !.lists = HList_new(elems, @).lists],
           HList_new(elems, st.lists).val)

visit_list_literal(expr, st) ==
    Then(accept_all(expr.elements, 1, <<>>, st), LAMBDA elements :
        new_list(elements.val, elements.st))

\* [e.accept(self) for e in exprs], left to right; val is the sequence of values
accept_all(exprs, i, acc, st) ==
    IF i > Len(exprs) THEN Normal(st, acc)
    ELSE Then(accept_expr(exprs[i], st), LAMBDA r :
            accept_all(exprs, i + 1, Append(acc, r.val), r.st))

\* for param_name, arg_expr in zip(...): func_env.define(param_name, arg_expr.accept(self))
\* the arguments are evaluated in the caller's environment, which is still current
bind_arguments(func, arguments, i, func_env, st) ==
    IF i > Len(arguments) THEN Normal(st, HNull)
    ELSE Then(accept_expr(arguments[i], st), LAMBDA arg_value :
            bind_arguments(func, arguments, i + 1, func_env,
                [arg_value.st EXCEPT !.scopes =
                    Env_define(@, func_env, func.parameters[i], arg_value.val)]))

\* a variant without the finally clause: the environment is restored only
\* when the body returns
leave_function_no_finally(body, previous_env, ctx) ==
    CASE body.sig = "normal" ->
            Normal(Log([body.st EXCEPT !.env = previous_env, !.ctx = ctx],
                       "exit", HNull, Len(ctx) + 1), HNull)
      [] body.sig = "return" ->
            Normal(Log([body.st EXCEPT !.env = previous_env, !.ctx = ctx],
                       "exit", body.val, Len(ctx) + 1), body.val)
      [] OTHER -> [body EXCEPT !.st.ctx = ctx]

\* the try statement around the body: ReturnException is caught and its value
\* returned, the body falling through returns HNull, anything else propagates;
\* finally: self.env = previous_env
leave_function(body, previous_env, ctx) ==
    CASE body.sig = "normal" ->
            Normal(Log([body.st EXCEPT !.env = previous_env, !.ctx = ctx],
                       "exit", HNull, Len(ctx) + 1), HNull)
      [] body.sig = "return" ->
            Normal(Log([body.st EXCEPT !.env = previous_env, !.ctx = ctx],
                       "exit", body.val, Len(ctx) + 1), body.val)
      [] OTHER -> [body EXCEPT !.st.env = previous_env, !.st.ctx = ctx]

\* history: one record for every _call_function that ended, with the way it
\* ended and Evaluator.env when it was entered and when it ended
Noted(path, func, st, r) ==
    [r EXCEPT !.st.calls =
        Append(@, [name |-> func.name, path |-> path, before |-> st.env,
                   after |-> r.st.env,
                   depth |-> Cardinality({q \in DOMAIN st.ctx : st.ctx[q] = "call"})])]

\* the try statement, with the body run
call_left(func, st, body, previous_env) ==
    Noted(CASE body.sig = "normal" -> "fall"
            [] body.sig = "return" -> "return"
            [] OTHER -> "raise",
          func, st, leave_function(body, previous_env, st.ctx))

\* previous_env = self.env; self.env = func_env; the body
call_bound(func, st, bound) ==
    IF bound.sig # "normal" THEN Noted("argument", func, st, bound)
    ELSE call_left(func, st,
                   exec_block(func.body, 1,
                       Push([bound.st EXCEPT !.env = Len(st.scopes) + 1], "call")),
                   bound.st.env)

_call_function(func, arguments, st) ==
    IF Len(arguments) # Len(func.parameters)
    THEN Noted("arity", func, st,
            HRuntimeError([st EXCEPT !.scopes = Append(@, Environment(st.env))],
                "Function " \o func.name \o " expects "
                    \o ToString(Len(func.parameters))
                    \o " arguments, got " \o ToString(Len(arguments))))
    ELSE call_bound(func, st,
            bind_arguments(func, arguments, 1, Len(st.scopes) + 1,
                [st EXCEPT !.scopes = Append(@, Environment(st.env))]))

visit_function_call(expr, st) ==
    IF expr.function_name \in BuiltinNames
    THEN Then(accept_all(expr.arguments, 1, <<>>, st), LAMBDA args :
            call_builtin(expr.function_name, args.val, args.st))
    ELSE LET func == Env_get(st.scopes, st.env, expr.function_name)
         IN IF ~func.ok
            THEN HRuntimeError(st, "Undefined function: " \o expr.function_name)
            ELSE IF func.val.t = "function"
            THEN _call_function(func.val.v, expr.arguments, st)
            ELSE HRuntimeError(st, "'" \o expr.function_name \o "' is not a function")

accept_expr(expr, st) ==
    CASE expr.k = "Literal" -> visit_literal(expr, st)
      [] expr.k = "Identifier" -> visit_identifier(expr, st)
      [] expr.k = "GlobalVariable" -> visit_global_variable(expr, st)
      [] expr.k = "BinaryOperation" -> visit_binary_operation(expr, st)
      [] expr.k = "Comparison" -> visit_comparison(expr, st)
      [] expr.k = "LogicalOperation" -> visit_logical_operation(expr, st)
      [] expr.k = "ListIndex" -> visit_list_index(expr, st)
      [] expr.k = "FunctionCall" -> visit_function_call(expr, st)
      [] expr.k = "ListLiteral" -> visit_list_literal(expr, st)

\* stdlib_actions.echo(msg): ActionContext.echo -> ConsoleOutputHandler.output
StdlibActions_echo(st, msg_str) == [st EXCEPT !.console = Append(@, msg_str)]

visit_expression_statement(stmt, st) ==
    Then(accept_expr(stmt.expression, st), LAMBDA r : Normal(r.st, HNull))

\* the name an assignment target starts from: b for b, b[0] and b[0][1]
RECURSIVE BaseName(_)
BaseName(target) ==
    CASE target.k = "Identifier" -> target.name
      [] target.k = "GlobalVariable" -> "$" \o target.name
      [] target.k = "ListIndex" -> BaseName(target.list_expr)
      [] OTHER -> ""

\* history only: the state just before an assignment writes
BeforeWrite(st, target) == Log(st, "write", HString(BaseName(target)), 0)

visit_assignment(stmt, st) ==
    Then(accept_expr(stmt.value, st), LAMBDA value :
        CASE stmt.target.k = "Identifier" ->
                Normal([BeforeWrite(value.st, stmt.target) EXCEPT !.scopes =
                    visit_assignment_identifier(@, value.st.env, stmt.target.name,
                                                value.val)], HNull)
          [] stmt.target.k = "GlobalVariable" ->
                Normal([BeforeWrite(value.st, stmt.target) EXCEPT !.scopes =
                    visit_assignment_global(@, value.st.env, stmt.target.name,
                                            value.val)], HNull)
          [] stmt.target.k = "ListIndex" ->
                Then(accept_expr(stmt.target.list_expr, value.st), LAMBDA lst :
                Then(accept_expr(stmt.target.index, lst.st), LAMBDA index :
                    Operations_list_set(lst.val, index.val, value.val,
                                        BeforeWrite(index.st, stmt.target))))
          [] OTHER -> HRuntimeError(value.st, "Invalid assignment target"))

\* for elif_condition, elif_body in stmt.elif_branches: ...; then the else branch
elif_chain(stmt, i, st) ==
    IF i > Len(stmt.elif_branches) THEN exec_block(stmt.else_branch, 1, st)
    ELSE Then(accept_expr(stmt.elif_branches[i][1], st), LAMBDA c :
         Then(Truthy(c.val, c.st), LAMBDA t :
            IF t.val THEN exec_block(stmt.elif_branches[i][2], 1, c.st)
            ELSE elif_chain(stmt, i + 1, c.st)))

visit_if_statement(stmt, st) ==
    Then(accept_expr(stmt.condition, st), LAMBDA condition :
    Then(Truthy(condition.val, condition.st), LAMBDA t :
        IF t.val THEN exec_block(stmt.then_branch, 1, condition.st)
        ELSE elif_chain(stmt, 1, condition.st)))

\* a return signal taken as the end of the loop only (not the code)
ReturnCaught(r) == IF r.sig = "return" THEN Normal(r.st, HNull) ELSE r

\* a loop that catches the return signal of its body
\* (not the code: visit_while_statement re-raises it)
while_loop_catching(stmt, st) ==
    Then(accept_expr(stmt.condition, Log(st, "cond", HNull, 0)), LAMBDA condition :
    Then(Truthy(condition.val, condition.st), LAMBDA t :
        IF ~t.val THEN Normal(condition.st, HNull)
        ELSE ReturnCaught(Then(exec_block(stmt.body, 1, condition.st), LAMBDA body :
                while_loop_catching(stmt, body.st)))))

\* while stmt.condition.accept(self).is_truthy(): body; every signal of the
\* body (ReturnException is re-raised, errors are not caught) leaves the loop
while_loop(stmt, st) ==
    Then(accept_expr(stmt.condition, Log(st, "cond", HNull, 0)), LAMBDA condition :
    Then(Truthy(condition.val, condition.st), LAMBDA t :
        IF ~t.val THEN Normal(condition.st, HNull)
        ELSE Then(exec_block(stmt.body, 1, condition.st), LAMBDA body :
                while_loop(stmt, body.st))))

\* history only: the construct is left, whatever way
Leave(r, ctx) == [r EXCEPT !.st.ctx = ctx]

visit_while_statement(stmt, st) == Leave(while_loop(stmt, Push(st, "while")), st.ctx)

visit_function_definition(stmt, st) ==
    Normal([st EXCEPT !.scopes = Env_define(@, st.env, stmt.name, FunctionValue(stmt))],
           HNull)

visit_return_statement(stmt, st) ==
    IF stmt.has_value
    THEN Then(accept_expr(stmt.value, st), LAMBDA value :
            ReturnException(value.st, value.val))
    ELSE ReturnException(st, HNull)

\* self.stdlib_actions.echo(value); self.output_buffer.append(value.to_string())
echo_output(st, output) == [StdlibActions_echo(st, output) EXCEPT !.out = Append(@, output)]

visit_echo_statement(stmt, st) ==
    Then(accept_expr(stmt.expression, st), LAMBDA value :
        IF value.val.t = "function"
        THEN HRuntimeError(value.st,
                "'FunctionDefinition' object has no attribute 'to_string'")
        ELSE Normal(echo_output(value.st, to_string(value.val, value.st.lists)), HNull))

\* self.output_buffer.append(msg); self.stdlib_actions.echo(HString(msg))
TestMessage(st, msg) == StdlibActions_echo([st EXCEPT !.out = Append(@, msg)], msg)

\* str(e) of what the body raised
ExceptionText(r) ==
    IF r.sig = "return" THEN "Return: " \o repr(r.val, r.st.lists) ELSE r.val.v

\* the handlers and the finally clause of the test statement, body being what
\* the test body did. "except Exception" takes every signal of the body:
\* HRuntimeError and, being an Exception subclass too, ReturnException. The
\* marks of the messages are written "+" and "x" here. assert statements are
\* outside the model, so the AssertionError handler is never entered.
test_outcome(stmt, body, ctx) ==
    IF body.sig = "normal"
    THEN Normal([TestMessage([body.st EXCEPT !.ctx = ctx],
                             "  + Test '" \o stmt.name \o "' passed")
                    EXCEPT !.results = Append(@, [name |-> stmt.name, passed |-> TRUE,
                                                  errors |-> <<>>])], HNull)
    ELSE Normal([TestMessage(Log([body.st EXCEPT !.ctx = ctx], "caught", body.val, 0),
                    "  x Test '" \o stmt.name \o "' error: " \o ExceptionText(body))
                    EXCEPT !.results = Append(@, [name |-> stmt.name, passed |-> FALSE,
                        errors |-> <<"Runtime error: " \o ExceptionText(body)>>])],
                HNull)

visit_test_statement(stmt, st) ==
    test_outcome(stmt,
        exec_block(stmt.body, 1,
            Push(TestMessage(st, "\nRunning test: " \o stmt.name), "test")),
        st.ctx)

\* raise EndGameException(msg): a signal of its own, which the handlers for
\* ReturnException do not take and the handlers for Exception do
EndGameException(st, msg) ==
    [st |-> Log(st, "endgame", HString(msg), 0), sig |-> "endgame", val |-> HString(msg)]

\* ActionContext.end_game: no timer is running, so stopping them changes nothing
StdlibActions_end_game(st) == EndGameException(st, "Game ended")

\* a variant in which end_game() returns
visit_end_game_statement_returning(stmt, st) ==
    Normal(Log(st, "endgame", HString("Game ended"), 0), HNull)

visit_end_game_statement(stmt, st) == StdlibActions_end_game(st)

visit_statement(stmt, st) ==
    CASE stmt.k = "ExpressionStatement" -> visit_expression_statement(stmt, st)
      [] stmt.k = "Assignment" -> visit_assignment(stmt, st)
      [] stmt.k = "IfStatement" -> visit_if_statement(stmt, st)
      [] stmt.k = "WhileStatement" -> visit_while_statement(stmt, st)
      [] stmt.k = "FunctionDefinition" -> visit_function_definition(stmt, st)
      [] stmt.k = "ReturnStatement" -> visit_return_statement(stmt, st)
      [] stmt.k = "EchoStatement" -> visit_echo_statement(stmt, st)
      [] stmt.k = "TestStatement" -> visit_test_statement(stmt, st)
      [] stmt.k = "EndGameStatement" -> visit_end_game_statement(stmt, st)

\* stmt.accept(self); history: the start of the statement and, for an
\* assignment, the state it leaves
accept_stmt(stmt, st) ==
    Then(visit_statement(stmt, Log(st, "stmt", HString(stmt.k), 0)), LAMBDA r :
        IF stmt.k = "Assignment"
        THEN Normal(Log(r.st, "assign", HString(BaseName(stmt.target)), 0), HNull)
        ELSE r)

\* for s in stmts: s.accept(self)
exec_block(stmts, i, st) ==
    IF i > Len(stmts) THEN Normal(st, HNull)
    ELSE Then(accept_stmt(stmts[i], st), LAMBDA r : exec_block(stmts, i + 1, r.st))

\* for s in stmt.statements: s.accept(self); history: which top-level statement
RECURSIVE exec_top(_, _, _)
exec_top(statements, i, st) ==
    IF i > Len(statements) THEN Normal(st, HNull)
    ELSE Then(accept_stmt(statements[i], Log(st, "top", HNull, i)), LAMBDA r :
            exec_top(statements, i + 1, r.st))

\* visit_program without its first loop: nothing is bound ahead of the statements
\* (not the code)
visit_program_unregistered(program, st) ==
    Then(exec_top(program.statements, 1, st), LAMBDA r : Normal(r.st, HNull))

\* for func in stmt.functions.values(): self.env.define(func.name, func)
\* then the statements in order, inside try ... except EndGameException: pass
program_handlers(r) == IF r.sig \in {"normal", "endgame"} THEN Normal(r.st, HNull) ELSE r

visit_program(program, st) ==
    program_handlers(
        exec_top(program.statements, 1,
            [st EXCEPT !.scopes[st.env].variables =
                [n \in DOMAIN program.functions |->
                    FunctionValue(program.functions[n])] @@ @]))

\* the handlers of evaluate turning every exception into the program's value
\* (not the code)
evaluate_handlers_swallowing(r) == IF r.sig # "normal" THEN Normal(r.st, r.val) ELSE r

\* the handlers of evaluate: a top-level return ends the program with its
\* value, any other exception is re-raised as HRuntimeError("Runtime error: ...")
evaluate_handlers(r) ==
    CASE r.sig = "return" -> Normal(r.st, r.val)
      [] r.sig \in {"error", "endgame"} ->
            [r EXCEPT !.sig = "error", !.val = HString("Runtime error: " \o r.val.v)]
      [] OTHER -> r

\* Evaluator.evaluate
evaluate(program, st) == evaluate_handlers(visit_program(program, st))

(***************************************************************************)
(* SpecEval: one interpreter, driven by its host. The host executes        *)
(* programs from a pool, in any order and with repetition; variables,      *)
(* functions and lists of earlier programs stay in the root scope.         *)
(***************************************************************************)
Num(n) == Literal(HNumber(n))
Str(s) == Literal(HString(s))
Id(name) == Identifier(name)
Set(name, value) == Assignment(Identifier(name), value)
SetAt(name, i, value) == Assignment(ListIndex(Identifier(name), Num(i)), value)
Echo(expression) == EchoStatement(expression)
Call(name, arguments) == FunctionCall(name, arguments)
Do(name, arguments) == ExpressionStatement(FunctionCall(name, arguments))
If(condition, then_branch) == IfStatement(condition, then_branch, <<>>, <<>>)
Return(value) == ReturnStatement(TRUE, value)
Incr(name) == Set(name, BinaryOperation(Id(name), "+", Num(1)))

\* f()                      k()
\* echo "a"                 echo "a"
\* function f():            function k():
\*     echo "f"                 set n to 1
\*                          echo "b"
ProgCallFirst == <<Do("f", <<>>), Echo(Str("a")),
                   FunctionDefinition("f", <<>>, <<Echo(Str("f"))>>)>>
ProgFlat == <<Do("k", <<>>), Echo(Str("a")),
              FunctionDefinition("k", <<>>, <<Set("n", Num(1))>>), Echo(Str("b"))>>

\* echo "a"
\* u()
\* echo "b"
ProgUndefined == <<Echo(Str("a")), Do("u", <<>>), Echo(Str("b"))>>

\* function w(n):
\*     set i to 0
\*     while i < 3:
\*         if i >= n:
\*             return i * 10
\*         set i to i + 1
\*     echo "after"
\*     return 99
FuncW ==
    FunctionDefinition("w", <<"n">>,
        <<Set("i", Num(0)),
          WhileStatement(Comparison(Id("i"), "<", Num(3)),
              <<If(Comparison(Id("i"), ">=", Id("n")),
                   <<Return(BinaryOperation(Id("i"), "*", Num(10)))>>),
                Incr("i")>>),
          Echo(Str("after")),
          Return(Num(99))>>)

\* echo w(1)                 echo w(5)
ProgReturnInLoop == <<FuncW, Echo(Call("w", <<Num(1)>>))>>
ProgLoopRunsOut == <<FuncW, Echo(Call("w", <<Num(5)>>))>>

\* function t():
\*     set j to 0
\*     while j < 2:
\*         set j to j + 1
\*         test "t":
\*             return 7
\*     echo "end"
\* echo t()
ProgReturnInTest ==
    <<FunctionDefinition("t", <<>>,
        <<Set("j", Num(0)),
          WhileStatement(Comparison(Id("j"), "<", Num(2)),
              <<Incr("j"), TestStatement("t", <<Return(Num(7))>>)>>),
          Echo(Str("end"))>>),
      Echo(Call("t", <<>>))>>

\* echo "a"
\* set z to 1 % 0
\* echo "b"
ProgErrorTop == <<Echo(Str("a")), Set("z", BinaryOperation(Num(1), "%", Num(0))),
                  Echo(Str("b"))>>

\* function e():
\*     echo "in"
\*     set q to nowhere
\*     echo "never"
\* e()
\* set z to 2
ProgErrorInFunction ==
    <<FunctionDefinition("e", <<>>,
        <<Echo(Str("in")), Set("q", Id("nowhere")), Echo(Str("never"))>>),
      Do("e", <<>>), Set("z", Num(2))>>

\* set m to 0
\* while m < 2:
\*     set m to m + 1
\*     if m == 1:
\*         echo [1][5]
\*     echo "b"
\* echo "c"
ProgErrorInLoop ==
    <<Set("m", Num(0)),
      WhileStatement(Comparison(Id("m"), "<", Num(2)),
          <<Incr("m"),
            If(Comparison(Id("m"), "==", Num(1)),
               <<Echo(ListIndex(ListLiteral(<<Num(1)>>), Num(5)))>>),
            Echo(Str("b"))>>),
      Echo(Str("c"))>>

\* test "d":
\*     echo "in"
\*     echo 1 % 0
\*     set z to 3
\* echo "after"
ProgErrorInTest ==
    <<TestStatement("d", <<Echo(Str("in")), Echo(BinaryOperation(Num(1), "%", Num(0))),
                           Set("z", Num(3))>>),
      Echo(Str("after"))>>

\* test "p":
\*     echo "fine"
ProgTestPasses == <<TestStatement("p", <<Echo(Str("fine"))>>)>>

\* test "s":
\*     echo 1 % 0
\*     echo "skipped"
\* echo "after"
\* echo nowhere
\* echo "never"
ProgErrorsBoth ==
    <<TestStatement("s", <<Echo(BinaryOperation(Num(1), "%", Num(0))),
                           Echo(Str("skipped"))>>),
      Echo(Str("after")), Echo(Id("nowhere")), Echo(Str("never"))>>

\* set a to [1, 2, 3]
\* set b to a
\* set b[0] to 9
\* echo a
ProgAlias == <<Set("a", ListLiteral(<<Num(1), Num(2), Num(3)>>)), Set("b", Id("a")),
               SetAt("b", 0, Num(9)), Echo(Id("a"))>>

\* function h(p):
\*     set p[0] to 7
\* set a to [1, 2]
\* h(a)
\* echo a
ProgAliasArgument ==
    <<FunctionDefinition("h", <<"p">>, <<SetAt("p", 0, Num(7))>>),
      Set("a", ListLiteral(<<Num(1), Num(2)>>)), Do("h", <<Id("a")>>), Echo(Id("a"))>>

\* set b[1] to 5
\* echo a
ProgWriteThroughB == <<SetAt("b", 1, Num(5)), Echo(Id("a"))>>

\* set c to [1]
\* set d to c + 2
\* set d[0] to 4
\* echo c
\* echo d
ProgAppendCopies ==
    <<Set("c", ListLiteral(<<Num(1)>>)), Set("d", BinaryOperation(Id("c"), "+", Num(2))),
      SetAt("d", 0, Num(4)), Echo(Id("c")), Echo(Id("d"))>>

\* function touch(v):
\*     echo "s"
\*     set t to t + 1
\*     return v
FuncTouch ==
    FunctionDefinition("touch", <<"v">>, <<Echo(Str("s")), Incr("t"), Return(Id("v"))>>)

\* set t to 0
\* echo 0 and touch(5)
\* echo "x" or touch(0)
\* echo t
\* echo 1 and touch(5)
\* echo [] or touch(0)
\* echo null or touch("k")
\* echo t
ProgShortCircuit ==
    <<FuncTouch, Set("t", Num(0)),
      Echo(LogicalOperation(Num(0), "and", Call("touch", <<Num(5)>>))),
      Echo(LogicalOperation(Str("x"), "or", Call("touch", <<Num(0)>>))),
      Echo(Id("t")),
      Echo(LogicalOperation(Num(1), "and", Call("touch", <<Num(5)>>))),
      Echo(LogicalOperation(ListLiteral(<<>>), "or", Call("touch", <<Num(0)>>))),
      Echo(LogicalOperation(Literal(HNull), "or", Call("touch", <<Str("k")>>))),
      Echo(Id("t"))>>

Eq(left, right) == Comparison(left, "==", right)
True == Literal(HBoolean(TRUE))
False == Literal(HBoolean(FALSE))
Null == Literal(HNull)

\* echo true == 1          echo false == 0       echo true == 2
\* echo null == 0          echo null == false    echo null == null
\* echo "1" == 1           echo "" == []         echo "a" == "a"
\* echo 1 == 1             echo 1 == 2           echo [1, "a"] == [1, "a"]
\* echo [1] == [true]      echo [1, 2] == [1]    echo [[]] == [[]]
ProgEquality ==
    <<Echo(Eq(True, Num(1))), Echo(Eq(False, Num(0))), Echo(Eq(True, Num(2))),
      Echo(Eq(Null, Num(0))), Echo(Eq(Null, False)), Echo(Eq(Null, Null)),
      Echo(Eq(Str("1"), Num(1))), Echo(Eq(Str(""), ListLiteral(<<>>))),
      Echo(Eq(Str("a"), Str("a"))),
      Echo(Eq(Num(1), Num(1))), Echo(Eq(Num(1), Num(2))),
      Echo(Eq(ListLiteral(<<Num(1), Str("a")>>), ListLiteral(<<Num(1), Str("a")>>))),
      Echo(Eq(ListLiteral(<<Num(1)>>), ListLiteral(<<True>>))),
      Echo(Eq(ListLiteral(<<Num(1), Num(2)>>), ListLiteral(<<Num(1)>>))),
      Echo(Eq(ListLiteral(<<ListLiteral(<<>>)>>), ListLiteral(<<ListLiteral(<<>>)>>)))>>

\* set parts to ["Hello", "World", "Test"]
\* echo "Parts: " + "three"
\* echo "Parts count: " + len(parts)
\* echo "unreached"
ProgConcatNumber ==
    <<Set("parts", ListLiteral(<<Str("Hello"), Str("World"), Str("Test")>>)),
      Echo(BinaryOperation(Str("Parts: "), "+", Str("three"))),
      Echo(BinaryOperation(Str("Parts count: "), "+", Call("len", <<Id("parts")>>))),
      Echo(Str("unreached"))>>

\* set has_key to true
\* echo "Now have key: " + has_key
ProgConcatBoolean ==
    <<Set("has_key", True),
      Echo(BinaryOperation(Str("Now have key: "), "+", Id("has_key")))>>

\* echo "Items: " + [1, 2]
ProgConcatList ==
    <<Echo(BinaryOperation(Str("Items: "), "+", ListLiteral(<<Num(1), Num(2)>>)))>>

\* function r(n):              test "arity":
\*     if n == 0:                  r()
\*         return 0            test "argument":
\*     return r(n - 1)             r(g())
\* function g():               test "body":
\*     set v to 1 % 0              g()
\* function h():               h()
\*     set v to r(1)           echo "done"
ProgCallExits ==
    <<FunctionDefinition("r", <<"n">>,
        <<If(Comparison(Id("n"), "==", Num(0)), <<Return(Num(0))>>),
          Return(Call("r", <<BinaryOperation(Id("n"), "-", Num(1))>>))>>),
      FunctionDefinition("g", <<>>, <<Set("v", BinaryOperation(Num(1), "%", Num(0)))>>),
      FunctionDefinition("h", <<>>, <<Set("v", Call("r", <<Num(1)>>))>>),
      TestStatement("arity", <<Do("r", <<>>)>>),
      TestStatement("argument", <<Do("r", <<Call("g", <<>>)>>)>>),
      TestStatement("body", <<Do("g", <<>>)>>),
      Do("h", <<>>),
      Echo(Str("done"))>>

\* echo "Before end"       function q():            test "t":
\* end game                   echo "in"                end game
\* echo "After end"           end game              echo "after"
\*                            echo "never"
\*                        function p():
\*                            q()
\*                            echo "p"
\*                        set m to 0
\*                        while m < 2:
\*                            set m to m + 1
\*                            p()
\*                        echo "after"
ProgEndGame == <<Echo(Str("Before end")), EndGameStatement, Echo(Str("After end"))>>
ProgEndGameInFunction ==
    <<FunctionDefinition("q", <<>>,
        <<Echo(Str("in")), EndGameStatement, Echo(Str("never"))>>),
      FunctionDefinition("p", <<>>, <<Do("q", <<>>), Echo(Str("p"))>>),
      Set("m", Num(0)),
      WhileStatement(Comparison(Id("m"), "<", Num(2)), <<Incr("m"), Do("p", <<>>)>>),
      Echo(Str("after"))>>
ProgEndGameInTest == <<TestStatement("t", <<EndGameStatement>>), Echo(Str("after"))>>

Programs ==
    <<ProgCallFirst, ProgFlat, ProgUndefined, ProgReturnInLoop, ProgLoopRunsOut,
      ProgReturnInTest, ProgErrorTop, ProgErrorInFunction, ProgErrorInLoop,
      ProgErrorInTest, ProgTestPasses, ProgErrorsBoth, ProgAlias, ProgAliasArgument,
      ProgWriteThroughB, ProgAppendCopies, ProgShortCircuit,
      ProgEquality, ProgConcatNumber, ProgConcatBoolean, ProgConcatList,
      ProgCallExits, ProgEndGame, ProgEndGameInFunction, ProgEndGameInTest>>

\* HLangInterpreter.__init__: a fresh root Environment, an Evaluator on it
InitEval ==
    /\ scopes = <<Environment(None)>>
    /\ env = 1
    /\ frames = <<>>
    /\ last = [op |-> "init", name |-> "", ok |-> TRUE, val |-> HNull,
               env |-> 1, pre |-> <<>>, written |-> {}, assigned |-> {}]
    /\ gshadow = EmptyMap
    /\ nops = 0
    /\ lists = <<>>
    /\ output_buffer = <<>>
    /\ console = <<>>
    /\ output_history = <<>>
    /\ test_results = <<>>
    /\ run = [prog |-> 0, sig |-> "none", val |-> HNull, log |-> <<>>,
               calls |-> <<>>,
               out0 |-> 0, final |-> <<>>]
    /\ mark = 0
    /\ failed = FALSE
    /\ nexec = 0
    /\ PureIdle

\* clear_output leaving the buffer as it is (not the code)
Evaluator_clear_output_skipped(buffer) == buffer

\* Evaluator.clear_output: self.output_buffer.clear()
Evaluator_clear_output(buffer) == <<>>

\* a variant of execute() that collects and clears the buffer in a finally
ExecuteEnds_finally(p, result) ==
    /\ scopes' = <<result.st.scopes[1]>>
    /\ env' = result.st.env
    /\ lists' = result.st.lists
    /\ console' = result.st.console
    /\ test_results' = result.st.results
    /\ output_history' = output_history \o result.st.out
    /\ output_buffer' = Evaluator_clear_output(result.st.out)
    /\ failed' = (failed \/ result.sig # "normal")
    /\ run' = [prog |-> p, sig |-> result.sig, val |-> result.val,
               log |-> result.st.log, calls |-> result.st.calls,
               out0 |-> Len(output_buffer),
               final |-> Snapshot(result.st)]

\* What execute() does with the outcome of evaluate. When evaluate raised,
\* the two statements after it do not run: the history is not extended and the
\* evaluator's buffer keeps what it holds. The scopes of finished calls are
\* unreachable and dropped.
ExecuteEnds(p, result) ==
    /\ scopes' = <<result.st.scopes[1]>>
    /\ env' = result.st.env
    /\ lists' = result.st.lists
    /\ console' = result.st.console
    /\ test_results' = result.st.results
    /\ IF result.sig = "normal"
       THEN /\ output_history' = output_history \o result.st.out
            /\ output_buffer' = Evaluator_clear_output(result.st.out)
            /\ failed' = failed
       ELSE /\ output_history' = output_history
            /\ output_buffer' = result.st.out
            /\ failed' = TRUE
    /\ run' = [prog |-> p, sig |-> result.sig, val |-> result.val,
               log |-> result.st.log, calls |-> result.st.calls,
               out0 |-> Len(output_buffer),
               final |-> Snapshot(result.st)]

\* HLangInterpreter.execute(source), source being the text of Programs[p]
Execute(p) ==
    /\ nexec < MaxExecutes
    /\ ExecuteEnds(p, evaluate(Program(Programs[p]),
            [scopes |-> scopes, env |-> env, lists |-> lists, out |-> output_buffer,
             console |-> console, results |-> test_results, ctx |-> <<>>,
             log |-> <<>>, calls |-> <<>>]))
    /\ nexec' = nexec + 1
    /\ UNCHANGED <<mark, envVars, pureVars>>

\* HLangInterpreter.clear_output(): self.output_history.clear()
ClearOutput ==
    /\ output_history' = <<>>
    /\ mark' = Len(console)
    /\ UNCHANGED <<scopes, env, lists, output_buffer, console, test_results, run,
                   failed, nexec, envVars, pureVars>>

NextEval ==
    \/ \E p \in DOMAIN Programs : Execute(p)
    \/ ClearOutput

SpecEval == InitEval /\ [][NextEval]_vars

(***************************************************************************)
(* Notions the properties of SpecEval are stated with.                     *)
(***************************************************************************)
RunLog == run.log

\* what the last execute() appended to the evaluator's buffer
Produced == SubSeq(run.final.out, run.out0 + 1, Len(run.final.out))

IsTop(ev) == ev.e = "top"

RECURSIVE HasOutput(_, _)
RECURSIVE HasOutputIn(_)
\* an echo or a test block somewhere in statement s
HasOutputIn(s) ==
    CASE s.k \in {"EchoStatement", "TestStatement"} -> TRUE
      [] s.k \in {"WhileStatement", "FunctionDefinition"} -> HasOutput(s.body, 1)
      [] s.k = "IfStatement" ->
            \/ HasOutput(s.then_branch, 1)
            \/ HasOutput(s.else_branch, 1)
            \/ \E j \in DOMAIN s.elif_branches : HasOutput(s.elif_branches[j][2], 1)
      [] OTHER -> FALSE

HasOutput(stmts, i) ==
    IF i > Len(stmts) THEN FALSE ELSE HasOutputIn(stmts[i]) \/ HasOutput(stmts, i + 1)

\* Every echo of the program is a top-level `echo <literal>`; the other
\* top-level statements are definitions of functions and calls, without
\* arguments, of functions the program defines.
IsFlat(program) ==
    \A i \in DOMAIN program.statements :
        LET s == program.statements[i]
        IN \/ s.k = "EchoStatement" /\ s.expression.k = "Literal"
           \/ s.k = "FunctionDefinition" /\ ~HasOutput(s.body, 1)
           \/ /\ s.k = "ExpressionStatement"
              /\ s.expression.k = "FunctionCall"
              /\ s.expression.arguments = <<>>
              /\ s.expression.function_name \in DOMAIN program.functions

IsEcho(s) == s.k = "EchoStatement"

\* the strings of the top-level echo statements, in source order
SourceEchoes(program) ==
    LET echoes == SelectSeq(program.statements, IsEcho)
    IN [i \in DOMAIN echoes |-> to_string(echoes[i].expression.value, <<>>)]

InnermostCall(ctx) ==
    IF \E q \in DOMAIN ctx : ctx[q] = "call"
    THEN CHOOSE q \in DOMAIN ctx :
            ctx[q] = "call" /\ \A r \in DOMAIN ctx : ctx[r] = "call" => r <= q
    ELSE 0

\* a return raised inside a while loop of a function body, no test block
\* standing between the body and the return
ReturnInLoop(ev) ==
    /\ ev.e = "return"
    /\ InnermostCall(ev.ctx) # 0
    /\ \E q \in DOMAIN ev.ctx : q > InnermostCall(ev.ctx) /\ ev.ctx[q] = "while"
    /\ \A q \in DOMAIN ev.ctx : q > InnermostCall(ev.ctx) => ev.ctx[q] # "test"

C8_OutputIsEchoesSinceClear ==
    (~failed /\ test_results = <<>>) =>
        output_history = SubSeq(console, mark + 1, Len(console))

\* Two successful executes with a clear_output() after the first one's echoes,
\* and the second one echoed.
C8_Witness ==
    /\ ~failed
    /\ test_results = <<>>
    /\ nexec = 2
    /\ mark > 0
    /\ mark < Len(console)
    /\ output_history # <<>>

\* the state the run ended in is the state the error event was raised in:
\* nothing was echoed and nothing was written after the raise, and the
\* execute() call raised
Aborted(ev) ==
    /\ run.sig = "error"
    /\ run.final.scopes = ev.snap.scopes
    /\ run.final.lists = ev.snap.lists
    /\ run.final.out = ev.snap.out
    /\ run.final.console = ev.snap.console

\* the innermost test block on a context stack, 0 when there is none
InnermostTest(ctx) ==
    IF \E q \in DOMAIN ctx : ctx[q] = "test"
    THEN CHOOSE q \in DOMAIN ctx :
            ctx[q] = "test" /\ \A r \in DOMAIN ctx : ctx[r] = "test" => r <= q
    ELSE 0

\* C9 (as stated): any runtime error aborts the current execute() call
\* entirely: once a statement raises a runtime error no later statement of the
\* program executes and the error reaches the host, wherever the failing
\* statement is nested -- function body, loop, if branch or test block.
C9_AnyErrorAborts ==
    \A i \in DOMAIN RunLog : RunLog[i].e = "error" => Aborted(RunLog[i])

\* C9 (amended): a runtime error raised outside every test block aborts the
\* execute() call as stated. A runtime error raised inside a test block is
\* caught by the innermost enclosing test block: the rest of that block's body
\* is skipped (the catch is the very next event, in the context the test
\* statement stands in) and the failure is recorded in the test results.
C9_ErrorAbortsUnlessInTest ==
    \A i \in DOMAIN RunLog :
        RunLog[i].e = "error" =>
            IF InnermostTest(RunLog[i].ctx) = 0
            THEN Aborted(RunLog[i])
            ELSE /\ i < Len(RunLog)
                 /\ RunLog[i + 1].e = "caught"
                 /\ RunLog[i + 1].val = RunLog[i].val
                 /\ RunLog[i + 1].ctx =
                        SubSeq(RunLog[i].ctx, 1, InnermostTest(RunLog[i].ctx) - 1)
                 /\ \E k \in DOMAIN run.final.results :
                        /\ ~run.final.results[k].passed
                        /\ run.final.results[k].errors =
                                <<"Runtime error: " \o RunLog[i].val.v>>

\* One run with both cases: an error inside a test block was caught and the
\* program went on echoing, then an error outside any test block ended the run.
C9_Witness ==
    /\ run.sig = "error"
    /\ \E i, j \in DOMAIN RunLog :
        /\ i < j
        /\ RunLog[i].e = "error" /\ InnermostTest(RunLog[i].ctx) # 0
        /\ RunLog[j].e = "error" /\ InnermostTest(RunLog[j].ctx) = 0
        /\ Len(RunLog[j].snap.out) > Len(RunLog[i].snap.out) + 1

\* the value read through a name: lists by their elements, not by identity
RECURSIVE Deep(_, _)
Deep(value, ls) ==
    IF value.t = "list"
    THEN [t |-> "list", v |-> [i \in DOMAIN ls[value.v] |-> Deep(ls[value.v][i], ls)]]
    ELSE value

Read(snap, name) ==
    LET g == Env_get(snap.scopes, snap.env, name)
    IN IF g.ok THEN Deep(g.val, snap.lists) ELSE [t |-> "unbound", v |-> 0]

RECURSIVE Visible(_, _)
Visible(sc, e) ==
    DOMAIN sc[e].variables
        \cup (IF sc[e].enclosing # None THEN Visible(sc, sc[e].enclosing) ELSE {})

\* the names whose value differs between two states
Changed(pre, post) ==
    {name \in Visible(pre.scopes, pre.env) \cup Visible(post.scopes, post.env) :
        Read(pre, name) # Read(post, name)}

\* C10: Lists have value semantics with no observable aliasing: the write of
\* an assignment statement changes the value read through the name its target
\* starts from (b for `set b to ...` and for `set b[i] to v`) and through no
\* other name -- in particular not through a after `set b to a`, nor through
\* the caller's variable after the list was passed as an argument.
C10_NoObservableAliasing ==
    \A i \in DOMAIN RunLog :
        (RunLog[i].e = "write" /\ i < Len(RunLog) /\ RunLog[i + 1].e = "assign") =>
            Changed(RunLog[i].snap, RunLog[i + 1].snap) \subseteq {RunLog[i].val.v}


(***************************************************************************)
(* The list operations that produce a changed list, applied to list objects*)
(* directly: hl_types/primitive.py, stdlib/builtins.py, stdlib/actions.py. *)
(* Each returns [ok, val, lists, msg]: whether it returned, the value it   *)
(* returned, the heap afterwards, and the message of the HRuntimeError.    *)
(***************************************************************************)
Returned(value, ls) == [ok |-> TRUE, val |-> value, lists |-> ls, msg |-> ""]
Raised(msg, ls) == [ok |-> FALSE, val |-> HNull, lists |-> ls, msg |-> msg]

\* An optional int argument: <<>> is Python's None, <<n>> is n
NoneArg == <<>>
Some(n) == <<n>>

\* remove_at(): the copy loses the element, the receiver is not touched
HList_remove_at(lst, index, ls) ==
    IF ~HList_in_range(index, Len(ls[lst.v]))
    THEN Raised("List index out of range: "
                    \o ToString(HList_index(index, Len(ls[lst.v]))), ls)
    ELSE LET c == HValue_copy(lst, ls)
             i == HList_index(index, Len(ls[lst.v])) + 1
         IN Returned(c.val,
                [c.lists EXCEPT ![c.val.v] =
                    SubSeq(@, 1, i - 1) \o SubSeq(@, i + 1, Len(@))])

Max(a, b) == IF a > b THEN a ELSE b

\* get_slice(): the bounds are normalised and clamped to 0..length, and
\* self.value[start:end] goes into a new object (the elements are shared)
SliceBound(bound, default, length) ==
    IF bound = NoneArg THEN default
    ELSE LET b == IF bound[1] < 0 THEN Max(0, length + bound[1]) ELSE bound[1]
         IN Max(0, Min({b, length}))

HList_get_slice(lst, start, end, ls) ==
    HList_new(SubSeq(ls[lst.v],
                     SliceBound(start, 0, Len(ls[lst.v])) + 1,
                     SliceBound(end, Len(ls[lst.v]), Len(ls[lst.v]))), ls)

\* sorted(self.value, key=lambda x: x.value, reverse=descending): a stable
\* sort; the keys of numbers and booleans are compared numerically.
SortsBefore(x, y, descending) ==
    IF descending THEN PyNumeric(x) >= PyNumeric(y) ELSE PyNumeric(x) <= PyNumeric(y)

RECURSIVE sorted(_, _, _, _)
sorted(elems, i, acc, descending) ==
    IF i > Len(elems) THEN acc
    ELSE LET k == Cardinality({j \in DOMAIN acc : SortsBefore(acc[j], elems[i], descending)})
         IN sorted(elems, i + 1,
                   SubSeq(acc, 1, k) \o <<elems[i]>> \o SubSeq(acc, k + 1, Len(acc)),
                   descending)

IsNumeric(value) == value.t \in {"number", "boolean"}

\* The lists whose sort the model computes: those of numbers and booleans,
\* those of at most one element (nothing is compared), and those that mix a
\* number with a string or a list (a comparison raises TypeError).
SortModelled(elems) ==
    \/ Len(elems) <= 1
    \/ \E i \in DOMAIN elems : IsNumeric(elems[i])

\* sort(): a new object; TypeError becomes HRuntimeError
HList_sort(lst, descending, ls) ==
    IF Len(ls[lst.v]) <= 1 \/ \A i \in DOMAIN ls[lst.v] : IsNumeric(ls[lst.v][i])
    THEN LET n == HList_new(sorted(ls[lst.v], 1, <<>>, descending), ls)
         IN Returned(n.val, n.lists)
    ELSE Raised("Cannot sort list with mixed types", ls)

\* reverse(): HList(list(reversed(self.value)))
Reversed(elems) == [i \in 1..Len(elems) |-> elems[Len(elems) + 1 - i]]

HList_reverse(lst, ls) == HList_new(Reversed(ls[lst.v]), ls)

\* The builtins check their argument types and delegate to the list
h_append(lst, element, ls) ==
    IF lst.t # "list" THEN Raised("append() requires list as first argument", ls)
    ELSE LET a == HList_append(lst, element, ls) IN Returned(a.val, a.lists)

h_removeAt(lst, index, ls) ==
    IF lst.t # "list" THEN Raised("removeAt() requires list as first argument", ls)
    ELSE IF index.t # "number" THEN Raised("removeAt() index must be a number", ls)
    ELSE HList_remove_at(lst, index.v, ls)

h_sort(lst, descending, ls) ==
    IF lst.t # "list" THEN Raised("sort() requires list argument", ls)
    ELSE IF descending = NoneArg THEN HList_sort(lst, FALSE, ls)
    ELSE IF descending[1].t # "boolean" THEN Raised("sort() descending must be a boolean", ls)
    ELSE HList_sort(lst, descending[1].v, ls)

h_reverse(lst, ls) ==
    IF lst.t # "list" THEN Raised("reverse() requires list argument", ls)
    ELSE LET n == HList_reverse(lst, ls) IN Returned(n.val, n.lists)

\* Operations.list_slice(lst, start, end), the bounds being integers or absent
Operations_list_slice(lst, start, end, ls) ==
    IF lst.t # "list" THEN Raised("Cannot slice " \o type_name(lst), ls)
    ELSE LET n == HList_get_slice(lst, start, end, ls) IN Returned(n.val, n.lists)

\* Operations.add with a list on the left
Operations_add_list(left, right, ls) ==
    LET a == HList_append(left, right, ls) IN Returned(a.val, a.lists)

\* StdlibActions.add_to(item, target)
StdlibActions_add_to(item, target, ls) ==
    IF target.t # "list" THEN Raised("Cannot add to non-list: " \o type_name(target), ls)
    ELSE LET a == HList_append(target, item, ls) IN Returned(a.val, a.lists)

\* StdlibActions.remove_from(item, source): a new object without the first
\* element that equals the item
RECURSIVE new_elements(_, _, _, _, _, _)
new_elements(elems, item, i, removed, acc, ls) ==
    IF i > Len(elems) THEN acc
    ELSE IF ~removed /\ HValue_eq(elems[i], item, ls)
         THEN new_elements(elems, item, i + 1, TRUE, acc, ls)
         ELSE new_elements(elems, item, i + 1, removed, Append(acc, elems[i]), ls)

StdlibActions_remove_from(item, source, ls) ==
    IF source.t # "list"
    THEN Raised("Cannot remove from non-list: " \o type_name(source), ls)
    ELSE LET n == HList_new(new_elements(ls[source.v], item, 1, FALSE, <<>>, ls), ls)
         IN Returned(n.val, n.lists)


(***************************************************************************)
(* SpecList: the list operations applied, in any order, to the objects of  *)
(* a heap that holds a flat list and a list with that list as an element.  *)
(***************************************************************************)
MaxListOps == 2

Heap0 == << <<HNumber(3), HBoolean(TRUE), HNumber(1)>>,
            <<HList(1), HNumber(1), HString("k")>> >>

\* What an operation can be handed as its list: every list object, and a number
Receivers == {HList(r) : r \in DOMAIN lists} \cup {HNumber(7)}
Elements == {HNumber(4), HList(1)}
Indexes == {HNumber(0), HNumber(-1), HNumber(3), HString("0")}
Bounds == {NoneArg, Some(1), Some(-2), Some(5)}
Orders == {NoneArg, <<HBoolean(TRUE)>>, <<HNumber(1)>>}

InitList ==
    /\ scopes = <<Environment(None)>>
    /\ env = 1
    /\ frames = <<>>
    /\ last = [op |-> "init", name |-> "", ok |-> TRUE, val |-> HNull,
               env |-> 1, pre |-> <<>>, written |-> {}, assigned |-> {}]
    /\ gshadow = EmptyMap
    /\ nops = 0
    /\ lists = Heap0
    /\ output_buffer = <<>>
    /\ console = <<>>
    /\ output_history = <<>>
    /\ test_results = <<>>
    /\ run = [prog |-> 0, sig |-> "none", val |-> HNull, log |-> <<>>,
               calls |-> <<>>,
               out0 |-> 0, final |-> <<>>]
    /\ mark = 0
    /\ failed = FALSE
    /\ nexec = 0
    /\ PureIdle

\* The operation returned or raised: the heap is what it left, and the
\* operands and the heap before it are remembered.
Applied(op, recv, r) ==
    /\ lop.n < MaxListOps
    /\ lists' = r.lists
    /\ lop' = [op |-> op, n |-> lop.n + 1, recv |-> recv, pre |-> lists,
               ok |-> r.ok, val |-> r.val]
    /\ UNCHANGED <<scopes, env, envVars, output_buffer, console, output_history,
                   test_results, run, mark, failed, nexec, lex, par,
                   hostVars>>

\* append(lst, element)
Append_(recv, element) == Applied("append", recv, h_append(recv, element, lists))

\* removeAt(lst, index)
RemoveAt(recv, index) == Applied("removeAt", recv, h_removeAt(recv, index, lists))

\* sort(lst) and sort(lst, descending)
Sort(recv, descending) ==
    /\ recv.t = "list" => SortModelled(lists[recv.v])
    /\ Applied("sort", recv, h_sort(recv, descending, lists))

\* reverse(lst)
Reverse(recv) == Applied("reverse", recv, h_reverse(recv, lists))

\* lst[start:end]
Slice(recv, start, end) ==
    Applied("slice", recv, Operations_list_slice(recv, start, end, lists))

\* lst + element
Plus(recv, element) ==
    /\ recv.t = "list"
    /\ Applied("+", recv, Operations_add_list(recv, element, lists))

\* add <item> to <target>, up to the assignment of the result
AddTo(item, target) == Applied("add_to", target, StdlibActions_add_to(item, target, lists))

\* remove <item> from <source>, up to the assignment of the result
RemoveFrom(item, source) ==
    Applied("remove_from", source, StdlibActions_remove_from(item, source, lists))

\* get_element(): the range check, then the element; nothing is written
get_element(lst, index, ls) ==
    IF ~HList_in_range(index, Len(ls[lst.v]))
    THEN Raised("List index out of range: "
                    \o ToString(HList_index(index, Len(ls[lst.v])))
                    \o " (list length: " \o ToString(Len(ls[lst.v])) \o ")", ls)
    ELSE Returned(HList_get_element(lst, index, ls), ls)

\* Operations.list_index on a heap
list_index(lst, index, ls) ==
    IF lst.t # "list" THEN Raised("Cannot index " \o type_name(lst), ls)
    ELSE IF index.t # "number"
    THEN Raised("List index must be a number, got " \o type_name(index), ls)
    ELSE get_element(lst, index.v, ls)

MaxIndex == 3
Positions == (0 - MaxIndex - 1)..MaxIndex

\* lst[index]
Index(recv, index) ==
    /\ lop.n < MaxListOps
    /\ LET r == list_index(recv, index, lists)
       IN /\ lists' = r.lists
          /\ lop' = [op |-> "index", n |-> lop.n + 1, recv |-> recv, pre |-> lists,
                     ok |-> r.ok, val |-> r.val, index |-> index, msg |-> r.msg]
    /\ UNCHANGED <<scopes, env, envVars, output_buffer, console, output_history,
                   test_results, run, mark, failed, nexec, lex, par,
                   hostVars>>

NextList ==
    \/ \E recv \in Receivers, i \in Positions : Index(recv, HNumber(i))
    \/ \E recv \in Receivers, element \in Elements : Append_(recv, element)
    \/ \E recv \in Receivers, index \in Indexes : RemoveAt(recv, index)
    \/ \E recv \in Receivers, descending \in Orders : Sort(recv, descending)
    \/ \E recv \in Receivers : Reverse(recv)
    \/ \E recv \in Receivers, start \in Bounds, end \in Bounds : Slice(recv, start, end)
    \/ \E recv \in Receivers, element \in Elements : Plus(recv, element)
    \/ \E target \in Receivers, item \in Elements : AddTo(item, target)
    \/ \E source \in Receivers, item \in Elements \cup {HNumber(1)} : RemoveFrom(item, source)

SpecList == InitList /\ [][NextList]_vars

ListOps == {"append", "removeAt", "sort", "reverse", "slice", "+", "add_to",
            "remove_from"}

\* the length an operation's result has, given the receiver's elements
LengthAfter(op, before, after) ==
    CASE op \in {"append", "+", "add_to"} -> after = before + 1
      [] op = "removeAt" -> after = before - 1
      [] op \in {"sort", "reverse"} -> after = before
      [] OTHER -> after <= before

\* C11: every list operation that produces a changed list (append, removeAt,
\* sort, reverse, slice, + with a list on the left, add_to, remove_from)
\* returns a list object that did not exist before and leaves the receiver,
\* and every other list that existed, with the length and the elements it
\* had; appending to a list of length 3 gives a list of length 4 and leaves
\* the receiver at length 3.
C11_ListOperationsReturnNewList ==
    (lop.op \in ListOps /\ lop.ok) =>
        /\ lop.val.t = "list"
        /\ lop.val.v \notin DOMAIN lop.pre
        /\ lop.val.v \in DOMAIN lists
        /\ \A r \in DOMAIN lop.pre : lists[r] = lop.pre[r]
        /\ Len(lists[lop.recv.v]) = Len(lop.pre[lop.recv.v])
        /\ LengthAfter(lop.op, Len(lop.pre[lop.recv.v]), Len(lists[lop.val.v]))

\* append has returned for a receiver of length 3: the receiver still has
\* length 3 and the result has length 4
C11_Witness ==
    /\ lop.op = "append" /\ lop.ok
    /\ Len(lop.pre[lop.recv.v]) = 3
    /\ Len(lists[lop.recv.v]) = 3
    /\ Len(lists[lop.val.v]) = 4


IndexedList == lop.op = "index" /\ lop.recv.t = "list" /\ lop.index.t = "number"
OutOfRange(msg) == SubSeq(msg, 1, 24) = "List index out of range:"

\* C21: for a list of length N, get_element(i) with 0 <= i < N returns the
\* element at position i, with -N <= i < 0 it returns what get_element(N + i)
\* returns, and with i >= N or i < -N (any i on the empty list) it raises the
\* index-out-of-range error; in every case the heap is left as it was.
C21_NegativeIndexWraps ==
    IndexedList =>
        LET elems == lop.pre[lop.recv.v]
            N == Len(elems)
            i == lop.index.v
        IN /\ lists = lop.pre
           /\ (0 <= i /\ i < N) => lop.ok /\ lop.val = elems[i + 1]
           /\ (0 - N <= i /\ i < 0) =>
                    /\ lop.ok
                    /\ lop.val = elems[N + i + 1]
                    /\ get_element(lop.recv, N + i, lop.pre).val = lop.val
           /\ (i >= N \/ i < 0 - N) => ~lop.ok /\ OutOfRange(lop.msg)

\* get_element(-1) has returned the last of 3 elements
C21_Witness ==
    /\ IndexedList /\ lop.ok
    /\ lop.index.v = -1
    /\ Len(lop.pre[lop.recv.v]) = 3
    /\ lop.val = lop.pre[lop.recv.v][3]


(***************************************************************************)
(* core/lexer.py. A source is the sequence of its lines (source.split of   *)
(* the text at its newlines) and a line is the sequence of its characters. *)
(* The characters of the model are lowercase letters, digits, space, tab   *)
(* and . - + / : , ( ) [ ] { } % = < > ! _ ; string literals, $names and   *)
(* block comments are not modelled. A token is [type, value, lexeme, line, *)
(* at, text]: value is the token's value as Python writes it (42.0, None,  *)
(* True), at is the position in the stripped line where the token starts,  *)
(* and text is the slice of the line that was converted into the value.    *)
(***************************************************************************)
INDENT_SIZE == 4

Digits == {"0", "1", "2", "3", "4", "5", "6", "7", "8", "9"}
Letters == {"a", "b", "c", "d", "e", "f", "g", "h", "i", "j", "k", "l", "m", "n",
            "o", "p", "q", "r", "s", "t", "u", "v", "w", "x", "y", "z"}
Whitespace == {" ", "\t", "\r"}
NUL == "NUL"

isdigit(c) == c \in Digits
isalpha(c) == c \in Letters
isalnum(c) == c \in Letters \cup Digits

\* ''.join(chars)
RECURSIVE Join(_)
Join(chars) == IF chars = <<>> THEN "" ELSE Head(chars) \o Join(Tail(chars))

\* s[a:b] as Python slices: a negative bound counts from the end
PyBound(s, a) == IF a < 0 THEN Max(0, Len(s) + a) ELSE Min({a, Len(s)})
PySlice(s, a, b) == SubSeq(s, PyBound(s, a) + 1, PyBound(s, b))

KEYWORDS ==
    [k \in {"and", "by", "contains", "else", "end", "every", "false", "for", "from",
            "has", "if", "in", "increase", "is", "not", "null", "on", "or", "remove",
            "run", "set", "start", "stop", "this", "timer", "to", "true", "wait",
            "when", "while", "function", "return", "ask", "as", "echo"} |->
        CASE k = "and" -> "AND" [] k = "by" -> "BY" [] k = "contains" -> "CONTAINS"
          [] k = "else" -> "ELSE" [] k = "end" -> "END" [] k = "every" -> "EVERY"
          [] k = "false" -> "FALSE" [] k = "for" -> "FOR" [] k = "from" -> "FROM"
          [] k = "has" -> "HAS" [] k = "if" -> "IF" [] k = "in" -> "IN"
          [] k = "increase" -> "INCREASE" [] k = "is" -> "IS" [] k = "not" -> "NOT"
          [] k = "null" -> "NULL_KEYWORD" [] k = "on" -> "ON" [] k = "or" -> "OR"
          [] k = "remove" -> "REMOVE" [] k = "run" -> "RUN" [] k = "set" -> "SET"
          [] k = "start" -> "START" [] k = "stop" -> "STOP" [] k = "this" -> "THIS"
          [] k = "timer" -> "TIMER" [] k = "to" -> "TO" [] k = "true" -> "TRUE"
          [] k = "wait" -> "WAIT" [] k = "when" -> "WHEN" [] k = "while" -> "WHILE"
          [] k = "function" -> "FUNCTION" [] k = "return" -> "RETURN"
          [] k = "ask" -> "ASK" [] k = "as" -> "AS" [] k = "echo" -> "ECHO"]

single_char_tokens ==
    [c \in {"+", "-", "*", "/", "%", ".", ",", ":", "(", ")", "[", "]", "{", "}"} |->
        CASE c = "+" -> "PLUS" [] c = "-" -> "MINUS" [] c = "*" -> "MULTIPLY"
          [] c = "/" -> "DIVIDE" [] c = "%" -> "MODULO" [] c = "." -> "DOT"
          [] c = "," -> "COMMA" [] c = ":" -> "COLON" [] c = "(" -> "LPAREN"
          [] c = ")" -> "RPAREN" [] c = "[" -> "LBRACKET" [] c = "]" -> "RBRACKET"
          [] c = "{" -> "LBRACE" [] c = "}" -> "RBRACE"]

Token(type, value, line) ==
    [type |-> type, value |-> value, lexeme |-> "", line |-> line, at |-> 0 - 1,
     text |-> ""]

\* Lexer(source), the lexer of one line: line is the number of that line
Lexer(source, line) ==
    [source |-> source, start |-> 0, current |-> 0, tokens |-> <<>>, line |-> line,
     err |-> ""]

\* peek(offset): '\0' past the end
Lexer_peek(L, offset) ==
    IF L.current + offset >= Len(L.source) THEN NUL
    ELSE L.source[L.current + offset + 1]

\* error(message): raise LexerError; and the exceptions float() raises
Lexer_error(L) == [L EXCEPT !.err = "LexerError"]
ValueError(L) == [L EXCEPT !.err = "ValueError"]
\* the scan loop is at the position it was at with one more token: it goes on
\* appending that token for ever
NoReturn(L) == [L EXCEPT !.err = "NoReturn"]

\* add_token(type, value) with the slice that was converted; add_token(type)
\* stores the lexeme as the value
add_token(L, type, value, text) ==
    [L EXCEPT !.tokens = Append(@,
        [type |-> type, value |-> value,
         lexeme |-> Join(PySlice(L.source, L.start, L.current)),
         line |-> L.line, at |-> L.start, text |-> text])]

add_lexeme(L, type) ==
    add_token(L, type, Join(PySlice(L.source, L.start, L.current)), "")

\* float(text), written as repr(float) writes it: surrounding whitespace is
\* dropped, a sign is allowed, and there must be digits around at most one
\* point. The texts the lexer can pass hold no exponent and no letters.
RECURSIVE lstrip(_)
lstrip(chars) ==
    IF chars # <<>> /\ Head(chars) \in Whitespace THEN lstrip(Tail(chars)) ELSE chars

RECURSIVE rstrip(_)
rstrip(chars) ==
    IF chars # <<>> /\ chars[Len(chars)] \in Whitespace
    THEN rstrip(SubSeq(chars, 1, Len(chars) - 1)) ELSE chars

Unsigned(chars) ==
    IF chars # <<>> /\ Head(chars) \in {"+", "-"} THEN Tail(chars) ELSE chars

IsFloatText(chars) ==
    /\ \A i \in DOMAIN Unsigned(chars) : Unsigned(chars)[i] \in Digits \cup {"."}
    /\ Cardinality({i \in DOMAIN Unsigned(chars) : Unsigned(chars)[i] = "."}) <= 1
    /\ \E i \in DOMAIN Unsigned(chars) : Unsigned(chars)[i] \in Digits

RECURSIVE DropLeadingZeros(_)
DropLeadingZeros(ds) ==
    IF Len(ds) > 1 /\ Head(ds) = "0" THEN DropLeadingZeros(Tail(ds)) ELSE ds

RECURSIVE DropTrailingZeros(_)
DropTrailingZeros(ds) ==
    IF Len(ds) > 1 /\ ds[Len(ds)] = "0"
    THEN DropTrailingZeros(SubSeq(ds, 1, Len(ds) - 1)) ELSE ds

OrZero(ds) == IF ds = <<>> THEN <<"0">> ELSE ds

PointAt(body) ==
    IF \E i \in DOMAIN body : body[i] = "."
    THEN CHOOSE i \in DOMAIN body : body[i] = "." ELSE Len(body) + 1

FloatRepr(chars) ==
    (IF chars # <<>> /\ Head(chars) = "-" THEN "-" ELSE "")
    \o Join(DropLeadingZeros(OrZero(SubSeq(Unsigned(chars), 1, PointAt(Unsigned(chars)) - 1))))
    \o "."
    \o Join(DropTrailingZeros(OrZero(SubSeq(Unsigned(chars), PointAt(Unsigned(chars)) + 1,
                                            Len(Unsigned(chars))))))

\* while self.peek().isdigit(): self.advance()
RECURSIVE digits_end(_, _)
digits_end(source, pos) ==
    IF pos < Len(source) /\ isdigit(source[pos + 1]) THEN digits_end(source, pos + 1)
    ELSE pos

\* the position read_number stops at when it starts reading at pos
number_end(source, pos) ==
    IF /\ digits_end(source, pos) + 1 < Len(source)
       /\ source[digits_end(source, pos) + 1] = "."
       /\ isdigit(source[digits_end(source, pos) + 2])
    THEN digits_end(source, digits_end(source, pos) + 1)
    ELSE digits_end(source, pos)

\* scan_token has stepped back to the token's first character when it calls
\* read_number, and read_number takes start_pos = self.current - 1: the slice
\* it converts starts one character before the token.
read_number(L, start_pos, end) ==
    IF ~IsFloatText(rstrip(lstrip(PySlice(L.source, start_pos, end))))
    THEN ValueError(L)
    ELSE IF end = L.start
         THEN NoReturn(L)
         ELSE add_token([L EXCEPT !.current = end], "NUMBER",
                        FloatRepr(rstrip(lstrip(PySlice(L.source, start_pos, end)))),
                        Join(PySlice(L.source, start_pos, end)))

\* while not at end and (peek().isalnum() or peek() == '_'): advance()
RECURSIVE identifier_end(_, _)
identifier_end(source, pos) ==
    IF pos < Len(source) /\ (isalnum(source[pos + 1]) \/ source[pos + 1] = "_")
    THEN identifier_end(source, pos + 1)
    ELSE pos

\* scan_token with the identifier read_identifier returned
add_word(L, identifier) ==
    IF identifier \in DOMAIN KEYWORDS
    THEN CASE KEYWORDS[identifier] = "TRUE" -> add_token(L, "BOOLEAN", "True", identifier)
           [] KEYWORDS[identifier] = "FALSE" -> add_token(L, "BOOLEAN", "False", identifier)
           [] KEYWORDS[identifier] = "NULL_KEYWORD" ->
                add_token(L, "NULL", Join(PySlice(L.source, L.start, L.current)), identifier)
           [] OTHER ->
                add_token(L, KEYWORDS[identifier],
                          Join(PySlice(L.source, L.start, L.current)), identifier)
    ELSE add_token(L, "IDENTIFIER", identifier, identifier)

\* read_identifier, called like read_number: start_pos = self.current - 1
read_identifier(L, start_pos, end) ==
    add_word([L EXCEPT !.current = end], Join(PySlice(L.source, start_pos, end)))

\* match(expected)
Lexer_match(L, expected) == Lexer_peek(L, 0) = expected

\* scan_token with char = self.advance() done: L.start is the position of
\* char and L.current the position after it
scan_char(L, char) ==
    IF char = "\n" THEN add_lexeme(L, "NEWLINE")
    ELSE IF char \in Whitespace THEN L
    ELSE IF isdigit(char) \/ (char = "-" /\ isdigit(Lexer_peek(L, 0)))
    THEN read_number(L, L.start - 1, number_end(L.source, L.start))
    ELSE IF isalpha(char) \/ char = "_"
    THEN read_identifier(L, L.start - 1, identifier_end(L.source, L.start))
    ELSE IF char = "/" /\ Lexer_peek(L, 0) = "/"
    THEN [L EXCEPT !.current = Len(L.source)]
    ELSE IF char \in DOMAIN single_char_tokens
    THEN add_lexeme(L, single_char_tokens[char])
    ELSE IF char \in {"=", "<", ">"}
    THEN IF Lexer_match(L, "=")
         THEN add_lexeme([L EXCEPT !.current = @ + 1],
                         CASE char = "=" -> "EQ" [] char = "<" -> "LE" [] OTHER -> "GE")
         ELSE add_lexeme(L, CASE char = "=" -> "ASSIGN" [] char = "<" -> "LT"
                              [] OTHER -> "GT")
    ELSE IF char = "!" /\ Lexer_match(L, "=")
    THEN add_lexeme([L EXCEPT !.current = @ + 1], "NE")
    ELSE Lexer_error(L)

scan_token(L) ==
    scan_char([L EXCEPT !.start = L.current, !.current = L.current + 1],
              L.source[L.current + 1])

\* while not line_lexer.is_at_end(): line_lexer.scan_token()
RECURSIVE scan_line(_)
scan_line(L) ==
    IF L.err # "" \/ L.current >= Len(L.source) THEN L ELSE scan_line(scan_token(L))


\* scan_tokens works on T = [tokens, indent_stack, err]
Top(stack) == stack[Len(stack)]

\* while self.indent_stack[-1] < indent_spaces: push a level, emit INDENT
RECURSIVE push_levels(_, _, _)
push_levels(T, indent_spaces, line) ==
    IF Top(T.indent_stack) < indent_spaces
    THEN push_levels(
            [T EXCEPT !.indent_stack = Append(@, Top(@) + INDENT_SIZE),
                      !.tokens = Append(@, Token("INDENT",
                                    ToString(Top(T.indent_stack) + INDENT_SIZE), line))],
            indent_spaces, line)
    ELSE T

\* while self.indent_stack[-1] > indent_spaces: pop a level, emit DEDENT
RECURSIVE pop_levels(_, _, _)
pop_levels(T, indent_spaces, line) ==
    IF Top(T.indent_stack) > indent_spaces
    THEN pop_levels(
            [T EXCEPT !.indent_stack = SubSeq(@, 1, Len(@) - 1),
                      !.tokens = Append(@, Token("DEDENT",
                                    ToString(T.indent_stack[Len(T.indent_stack) - 1]),
                                    line))],
            indent_spaces, line)
    ELSE T

\* every indentation step accepted (not the code)
IndentStepAny(indent_spaces, current_indent) == TRUE

\* the indentation step of a line that is not skipped
IndentStepOK(indent_spaces, current_indent) ==
    (indent_spaces - current_indent) % INDENT_SIZE = 0

handle_indent(T, indent_spaces, line) ==
    IF indent_spaces > Top(T.indent_stack)
    THEN IF ~IndentStepOK(indent_spaces, Top(T.indent_stack))
         THEN [T EXCEPT !.err = "LexerError"]
         ELSE push_levels(T, indent_spaces, line)
    ELSE IF indent_spaces < Top(T.indent_stack)
         THEN pop_levels(T, indent_spaces, line)
         ELSE T

\* the tokens of the line lexer go to the list, with a NEWLINE after them
extend_tokens(T, L, line) ==
    IF L.err # "" THEN [T EXCEPT !.err = L.err]
    ELSE IF L.tokens # <<>> /\ L.tokens[Len(L.tokens)].type # "NEWLINE"
         THEN [T EXCEPT !.tokens = @ \o L.tokens \o <<Token("NEWLINE", "None", line)>>]
         ELSE [T EXCEPT !.tokens = @ \o L.tokens]

\* only blank lines passed over (not the code)
IsSkipped_blank_only(stripped) == stripped = <<>>

\* the lines the loop passes over: not stripped or stripped.startswith('//')
IsSkipped(stripped) ==
    \/ stripped = <<>>
    \/ Len(stripped) >= 2 /\ stripped[1] = "/" /\ stripped[2] = "/"

\* one line that is not skipped, its indentation already handled
scan_content(T, stripped, line) ==
    IF T.err # "" THEN T ELSE extend_tokens(T, scan_line(Lexer(stripped, line)), line)

RECURSIVE scan_lines(_, _, _)
scan_lines(lines, i, T) ==
    IF T.err # "" \/ i > Len(lines) THEN T
    ELSE IF IsSkipped(lstrip(lines[i])) THEN scan_lines(lines, i + 1, T)
    ELSE scan_lines(lines, i + 1,
            scan_content(handle_indent(T, Len(lines[i]) - Len(lstrip(lines[i])), i),
                         lstrip(lines[i]), i))

\* the open levels left open at the end of the file (not the code)
close_levels_skipped(T, line) == T

\* end of file: while len(self.indent_stack) > 1: pop, emit DEDENT 0
RECURSIVE close_levels(_, _)
close_levels(T, line) ==
    IF Len(T.indent_stack) > 1
    THEN close_levels([T EXCEPT !.indent_stack = SubSeq(@, 1, Len(@) - 1),
                                !.tokens = Append(@, Token("DEDENT", "0", line))], line)
    ELSE T

IsWord(tokens, i, word) ==
    i <= Len(tokens) /\ tokens[i].type = "IDENTIFIER" /\ tokens[i].value = word

\* merge_compound_operators: how many tokens the operator at i spans and the
\* comparison token that takes their place
Merged(type, value, token) ==
    [type |-> type, value |-> value, lexeme |-> "", line |-> token.line,
     at |-> token.at, text |-> ""]

RECURSIVE merge_compound_operators(_, _, _)
merge_compound_operators(tokens, i, new_tokens) ==
    IF i > Len(tokens) THEN new_tokens
    ELSE IF tokens[i].type = "IS" /\ i + 1 <= Len(tokens)
    THEN IF tokens[i + 1].type = "NOT"
         THEN merge_compound_operators(tokens, i + 2,
                    Append(new_tokens, Merged("NE", "is not", tokens[i])))
         ELSE IF IsWord(tokens, i + 1, "greater") /\ IsWord(tokens, i + 2, "than")
         THEN merge_compound_operators(tokens, i + 3,
                    Append(new_tokens, Merged("GT", "is greater than", tokens[i])))
         ELSE IF IsWord(tokens, i + 1, "less") /\ IsWord(tokens, i + 2, "than")
         THEN merge_compound_operators(tokens, i + 3,
                    Append(new_tokens, Merged("LT", "is less than", tokens[i])))
         ELSE IF IsWord(tokens, i + 1, "at") /\ IsWord(tokens, i + 2, "least")
         THEN merge_compound_operators(tokens, i + 3,
                    Append(new_tokens, Merged("GE", "is at least", tokens[i])))
         ELSE IF IsWord(tokens, i + 1, "at") /\ IsWord(tokens, i + 2, "most")
         THEN merge_compound_operators(tokens, i + 3,
                    Append(new_tokens, Merged("LE", "is at most", tokens[i])))
         ELSE merge_compound_operators(tokens, i + 1,
                    Append(new_tokens, Merged("EQ", "is", tokens[i])))
    ELSE merge_compound_operators(tokens, i + 1, Append(new_tokens, tokens[i]))

\* scan_tokens after its loop over the lines: nothing is returned when a line
\* raised; otherwise the open levels are closed, EOF is added and the
\* operators are merged. levels is the indent stack the loop ended with.
finish_tokens(T, nlines) ==
    IF T.err # ""
    THEN [tokens |-> <<>>, indent_stack |-> T.indent_stack, err |-> T.err,
          levels |-> T.indent_stack]
    ELSE [tokens |-> merge_compound_operators(
                         Append(close_levels(T, nlines).tokens,
                                Token("EOF", "None", nlines)), 1, <<>>),
          indent_stack |-> close_levels(T, nlines).indent_stack, err |-> "",
          levels |-> T.indent_stack]

\* tokenize(source): Lexer(source).scan_tokens()
tokenize(lines) ==
    finish_tokens(scan_lines(lines, 1, [tokens |-> <<>>, indent_stack |-> <<0>>,
                                        err |-> ""]), Len(lines))


(***************************************************************************)
(* core/parser.py, the expression grammar from expression() down to        *)
(* primary(). A result is [expr, current, err]: the node, the position of  *)
(* the parser after it, and the message of the ParseError if one was       *)
(* raised. A Literal holds the token's value as the token holds it. Calls, *)
(* property chains, list literals and index brackets are not modelled: a   *)
(* token list that needs them gets the result Unmodelled.                  *)
(***************************************************************************)
UnaryOperation(operator, operand) ==
    [k |-> "UnaryOperation", operator |-> operator, operand |-> operand]
MemberCheck(operator, left, right) ==
    [k |-> "MemberCheck", operator |-> operator, left |-> left, right |-> right]
Grouping(expression_) == [k |-> "Grouping", expression |-> expression_]

Parsed(expr, current) == [expr |-> expr, current |-> current, err |-> ""]
ParseError(message, current) ==
    [expr |-> Literal("None"), current |-> current, err |-> message]
Unmodelled(current) == ParseError("(not modelled)", current)

\* peek(): the token at current, EOF past the end
Parser_peek(tokens, current) ==
    IF current >= Len(tokens) THEN tokens[Len(tokens)] ELSE tokens[current + 1]

\* check(type) for one of several types: never true at EOF
Parser_check(tokens, current, types) ==
    /\ Parser_peek(tokens, current).type # "EOF"
    /\ Parser_peek(tokens, current).type \in types

\* the node of a binary level, once its right operand is parsed
with_right(left, right, Node(_, _)) ==
    IF right.err # "" THEN right ELSE Parsed(Node(left.expr, right.expr), right.current)

\* the node of a prefix operator, once its operand is parsed
with_operand(operand, Node(_)) ==
    IF operand.err # "" THEN operand ELSE Parsed(Node(operand.expr), operand.current)

RECURSIVE or_expr(_, _), or_rest(_, _), and_expr(_, _), and_rest(_, _), not_expr(_, _),
          comparison(_, _), comparison_rest(_, _), additive(_, _), additive_rest(_, _),
          multiplicative(_, _), multiplicative_rest(_, _), index_access(_, _),
          unary(_, _), member_check(_, _), primary(_, _)

expression(tokens, current) == or_expr(tokens, current)

or_rest(tokens, expr) ==
    IF expr.err = "" /\ Parser_check(tokens, expr.current, {"OR"})
    THEN or_rest(tokens, with_right(expr, and_expr(tokens, expr.current + 1),
                    LAMBDA l, r : LogicalOperation(l, "or", r)))
    ELSE expr

or_expr(tokens, current) == or_rest(tokens, and_expr(tokens, current))

and_rest(tokens, expr) ==
    IF expr.err = "" /\ Parser_check(tokens, expr.current, {"AND"})
    THEN and_rest(tokens, with_right(expr, not_expr(tokens, expr.current + 1),
                    LAMBDA l, r : LogicalOperation(l, "and", r)))
    ELSE expr

and_expr(tokens, current) == and_rest(tokens, not_expr(tokens, current))

not_expr(tokens, current) ==
    IF Parser_check(tokens, current, {"NOT"})
    THEN with_operand(comparison(tokens, current + 1),
                      LAMBDA o : UnaryOperation("not", o))
    ELSE comparison(tokens, current)

\* while self.match(*compare_ops): the operator is the value of the token
comparison_rest(tokens, expr) ==
    IF expr.err = "" /\ Parser_check(tokens, expr.current,
                                     {"EQ", "NE", "GT", "LT", "GE", "LE"})
    THEN comparison_rest(tokens,
            with_right(expr, additive(tokens, expr.current + 1),
                LAMBDA l, r : Comparison(l, Parser_peek(tokens, expr.current).value, r)))
    ELSE expr

comparison(tokens, current) == comparison_rest(tokens, additive(tokens, current))

additive_rest(tokens, expr) ==
    IF expr.err = "" /\ Parser_check(tokens, expr.current, {"PLUS", "MINUS"})
    THEN additive_rest(tokens,
            with_right(expr, multiplicative(tokens, expr.current + 1),
                LAMBDA l, r : BinaryOperation(l,
                    IF Parser_peek(tokens, expr.current).type = "PLUS" THEN "+" ELSE "-",
                    r)))
    ELSE expr

additive(tokens, current) == additive_rest(tokens, multiplicative(tokens, current))

multiplicative_rest(tokens, expr) ==
    IF expr.err = "" /\ Parser_check(tokens, expr.current,
                                     {"MULTIPLY", "DIVIDE", "MODULO"})
    THEN multiplicative_rest(tokens,
            with_right(expr, index_access(tokens, expr.current + 1),
                LAMBDA l, r : BinaryOperation(l,
                    CASE Parser_peek(tokens, expr.current).type = "MULTIPLY" -> "*"
                      [] Parser_peek(tokens, expr.current).type = "DIVIDE" -> "/"
                      [] OTHER -> "%",
                    r)))
    ELSE expr

multiplicative(tokens, current) ==
    multiplicative_rest(tokens, index_access(tokens, current))

\* unary ([expression])*, without the brackets
index_rest(tokens, expr) ==
    IF expr.err = "" /\ Parser_check(tokens, expr.current, {"LBRACKET"})
    THEN Unmodelled(expr.current)
    ELSE expr

index_access(tokens, current) == index_rest(tokens, unary(tokens, current))

unary(tokens, current) ==
    IF Parser_check(tokens, current, {"MINUS"})
    THEN with_operand(unary(tokens, current + 1), LAMBDA o : UnaryOperation("-", o))
    ELSE member_check(tokens, current)

\* member_check with expr = self.primary() done. `self.match(IS) and
\* self.match(IN)` consumes the IS also when no IN follows.
member_rest(tokens, expr) ==
    IF expr.err # "" THEN expr
    ELSE IF Parser_check(tokens, expr.current, {"HAS"})
    THEN IF Parser_check(tokens, expr.current + 1, {"IDENTIFIER"})
         THEN Parsed(MemberCheck("has", expr.expr,
                        Identifier(Parser_peek(tokens, expr.current + 1).value)),
                     expr.current + 2)
         ELSE ParseError("Expected property name after 'has'", expr.current + 1)
    ELSE IF Parser_check(tokens, expr.current, {"IS"})
    THEN IF Parser_check(tokens, expr.current + 1, {"IN"})
         THEN with_right(expr, primary(tokens, expr.current + 2),
                         LAMBDA l, r : MemberCheck("is in", l, r))
         ELSE Parsed(expr.expr, expr.current + 1)
    ELSE expr

member_check(tokens, current) == member_rest(tokens, primary(tokens, current))

\* primary with the expression between the parentheses parsed
grouping_rest(tokens, expr) ==
    IF expr.err # "" THEN expr
    ELSE IF Parser_check(tokens, expr.current, {"RPAREN"})
    THEN Parsed(Grouping(expr.expr), expr.current + 1)
    ELSE ParseError("Expected ')' after expression", expr.current)

primary(tokens, current) ==
    IF Parser_check(tokens, current, {"BOOLEAN", "NUMBER", "STRING"})
    THEN Parsed(Literal(Parser_peek(tokens, current).value), current + 1)
    ELSE IF Parser_check(tokens, current, {"NULL"})
    THEN Parsed(Literal("None"), current + 1)
    ELSE IF Parser_check(tokens, current, {"GLOBAL_VAR"})
    THEN Parsed(GlobalVariable(Parser_peek(tokens, current).value), current + 1)
    ELSE IF Parser_check(tokens, current, {"IDENTIFIER"})
    THEN IF Parser_check(tokens, current + 1, {"LPAREN", "DOT"})
         THEN Unmodelled(current + 1)
         ELSE Parsed(Identifier(Parser_peek(tokens, current).value), current + 1)
    ELSE IF Parser_check(tokens, current, {"LPAREN"})
    THEN grouping_rest(tokens, expression(tokens, current + 1))
    ELSE IF Parser_check(tokens, current, {"LBRACKET"})
    THEN Unmodelled(current)
    ELSE ParseError("Expected expression", current)

(***************************************************************************)
(* SpecLex: tokenize() applied to sources built line by line from a pool   *)
(* of lines, and to those sources with a blank or comment-only line put in.*)
(***************************************************************************)
MaxLines == 3

LineSet == <<"s", "e", "t", " ", "x", " ", "t", "o", " ", "4", "2">>
LinePi == <<"3", ".", "1", "4">>
LineIn == <<"x", " ", "i", "s", " ", "i", "n", " ", "c">>
LineGt == <<"5", " ", "i", "s", " ", "g", "r", "e", "a", "t", "e", "r", " ", "t", "h", "a", "n", " ", "3">>
LineMinus == <<"b", " ", "5", "-", "3">>
LineB == <<"b">>

\* n spaces
Spaces(n) == [i \in 1..n |-> " "]

\* the lines a source is built from: statements at the margin, and the line
\* `b` at every indentation that matters
Lines ==
    {LineSet, LinePi, LineIn, LineGt, LineMinus}
    \cup {Spaces(n) \o LineB : n \in {0, 2, 3, 4, 5, 8}}

\* blank lines and comment-only lines, some of them indented
SkippedLines == {<<>>, Spaces(3), Spaces(2) \o <<"/", "/", " ", "c">>}



InitLex ==
    /\ scopes = <<Environment(None)>>
    /\ env = 1
    /\ frames = <<>>
    /\ last = [op |-> "init", name |-> "", ok |-> TRUE, val |-> HNull,
               env |-> 1, pre |-> <<>>, written |-> {}, assigned |-> {}]
    /\ gshadow = EmptyMap
    /\ nops = 0
    /\ lists = <<>>
    /\ output_buffer = <<>>
    /\ console = <<>>
    /\ output_history = <<>>
    /\ test_results = <<>>
    /\ run = [prog |-> 0, sig |-> "none", val |-> HNull, log |-> <<>>,
               calls |-> <<>>,
               out0 |-> 0, final |-> <<>>]
    /\ mark = 0
    /\ failed = FALSE
    /\ nexec = 0
    /\ PureIdle

NotParsed == ParseError("(not parsed)", 0)

\* tokenize(source) has been called: lex.out is what it returned or raised,
\* lex.prev what the call before it did
Tokenized(op, lines, at) ==
    /\ lex' = [src |-> lines, op |-> op, at |-> at, out |-> tokenize(lines),
               prev |-> lex.out, first |-> NotParsed]
    /\ UNCHANGED <<scopes, env, envVars, evalVars, lop, par, hostVars>>

\* the host tokenizes the source it has, extended by one more line
Tokenize(line) ==
    /\ Len(lex.src) < MaxLines
    /\ Tokenized("tokenize", Append(lex.src, line), Len(lex.src) + 1)

\* the host tokenizes the source it has with a skipped line put in after
\* line number at
InsertSkipped(line, at) ==
    /\ lex.src # <<>>
    /\ Len(lex.src) < MaxLines
    /\ Tokenized("insert", SubSeq(lex.src, 1, at) \o <<line>>
                           \o SubSeq(lex.src, at + 1, Len(lex.src)), at + 1)

\* Parser.parse skips NEWLINE, INDENT and DEDENT before a statement
RECURSIVE StatementStart(_, _)
StatementStart(tokens, current) ==
    IF Parser_check(tokens, current, {"NEWLINE", "INDENT", "DEDENT"})
    THEN StatementStart(tokens, current + 1) ELSE current

\* parse(source) up to its first statement, for a source whose first token is
\* none of the statement keywords: statement() calls expression()
ParseFirst ==
    /\ lex.op \in {"tokenize", "insert"}
    /\ lex.out.err = ""
    /\ Parser_peek(lex.out.tokens, StatementStart(lex.out.tokens, 0)).type
            \notin {KEYWORDS[k] : k \in DOMAIN KEYWORDS} \cup {"EOF"}
    /\ lex' = [lex EXCEPT !.op = "parse",
                          !.first = expression(lex.out.tokens,
                                               StatementStart(lex.out.tokens, 0))]
    /\ UNCHANGED <<scopes, env, envVars, evalVars, lop, par, hostVars>>

NextLex ==
    \/ \E line \in Lines : Tokenize(line)
    \/ \E line \in SkippedLines, at \in 0..Len(lex.src) : InsertSkipped(line, at)
    \/ ParseFirst

SpecLex == InitLex /\ [][NextLex]_vars


(***************************************************************************)
(* Properties of SpecLex.                                                  *)
(***************************************************************************)
Tokens == lex.out.tokens
Types(tokens) == [i \in DOMAIN tokens |-> tokens[i].type]
TypesAndValues(tokens) == [i \in DOMAIN tokens |-> <<tokens[i].type, tokens[i].value>>]

\* the types of the tokens made from a run of identifier or number characters
WordTypes ==
    {"IDENTIFIER", "NUMBER", "BOOLEAN", "NULL"} \cup {KEYWORDS[k] : k \in DOMAIN KEYWORDS}

\* the longest run of digit/decimal characters, or of identifier characters,
\* that starts at position at of the line
MaximalRun(source, at) ==
    IF isdigit(source[at + 1])
    THEN PySlice(source, at, number_end(source, at))
    ELSE PySlice(source, at, identifier_end(source, at))

\* C12: the text converted into an identifier, keyword or number token is the
\* maximal run of identifier (or digit/decimal) characters that starts at the
\* token's first character, wherever in the line the token stands, and no
\* conversion fails; `set x to 42` gives a SET token first and `3.14` gives a
\* NUMBER token with the value 3.14.
C12_TokenTextIsMaximalRun ==
    /\ lex.out.err \notin {"ValueError", "NoReturn"}
    /\ \A i \in DOMAIN Tokens :
          Tokens[i].type \in WordTypes =>
              Tokens[i].text = Join(MaximalRun(lstrip(lex.src[Tokens[i].line]),
                                               Tokens[i].at))
    /\ lex.src = <<LineSet>> => Tokens[1].type = "SET"
    /\ lex.src = <<LinePi>> => Tokens[1].type = "NUMBER" /\ Tokens[1].value = "3.14"


\* C13: no IS token is left in what tokenize returns, every `is` of the source
\* has become one comparison token (EQ for the `is` of `x is in c`), and
\* `5 is greater than 3` gives NUMBER GT NUMBER, which the parser reads as one
\* Comparison node with the operator `is greater than`.
C13_IsBecomesOneComparison ==
    /\ \A i \in DOMAIN Tokens : Tokens[i].type # "IS"
    /\ lex.src = <<LineIn>> => Tokens[2].type = "EQ"
    /\ lex.src = <<LineGt>> =>
          /\ lex.out.err = ""
          /\ Types(Tokens) = <<"NUMBER", "GT", "NUMBER", "NEWLINE", "EOF">>
          /\ lex.op = "parse" =>
                lex.first.expr = Comparison(Literal("5.0"), "is greater than",
                                            Literal("3.0"))


\* C14: the source `x is in c`, tokenized and parsed, is the membership check
\* MemberCheck(`is in`, x, c).
C14_IsInParsesToMemberCheck ==
    (lex.src = <<LineIn>> /\ lex.op = "parse") =>
        lex.first = Parsed(MemberCheck("is in", Identifier("x"), Identifier("c")), 4)


\* The last call tokenized a source whose last line is new: lex.prev is the
\* outcome for the lines before it, and the top of lex.prev.levels is the
\* indentation level that line is compared with.
AddedLast == lex.op \in {"tokenize", "insert"} /\ lex.at = Len(lex.src)
LastLine == lex.src[Len(lex.src)]
LeadingSpaces(line) == Len(line) - Len(lstrip(line))
LevelBefore == Top(lex.prev.levels)

\* the line is indented deeper than the level, by no multiple of 4
BadStep(line, level) ==
    /\ LeadingSpaces(line) > level
    /\ \A n \in 1..LeadingSpaces(line) : LeadingSpaces(line) - level # INDENT_SIZE * n

Fails == lex.out.err = "LexerError" /\ lex.out.tokens = <<>>

\* C15: a line that is tokenized (not blank, and not skipped as a comment-only
\* line) and is indented deeper than the current level by an amount that is
\* no multiple of 4 makes tokenize fail with LexerError and return no tokens,
\* whatever the line holds; the current level is the one the lines before
\* it, all tokenized without error, have left.
C15_BadIndentFails ==
    (AddedLast /\ lex.prev.err = "" /\ ~IsSkipped(lstrip(LastLine))
        /\ BadStep(LastLine, LevelBefore)) => Fails

\* a body line indented by 5 under a parent level of 4 has made tokenize fail
C15_Witness ==
    /\ AddedLast /\ lex.prev.err = "" /\ ~IsSkipped(lstrip(LastLine))
    /\ LevelBefore = 4 /\ LeadingSpaces(LastLine) = 5
    /\ Fails


\* the line is indented less than the level and to no level that is open
BadDedent(line, stack) ==
    /\ LeadingSpaces(line) < Top(stack)
    /\ \A k \in DOMAIN stack : stack[k] # LeadingSpaces(line)

\* C16: a tokenized line that dedents to a depth that is no open level (2
\* spaces after the levels 0 and 4) makes tokenize fail with LexerError; a
\* dedent that succeeds has popped exactly to the line's leading-space count.
C16_DedentToUnopenedLevelFails ==
    (AddedLast /\ lex.prev.err = "" /\ ~IsSkipped(lstrip(LastLine))) =>
        /\ BadDedent(LastLine, lex.prev.levels) => Fails
        /\ (LeadingSpaces(LastLine) < LevelBefore /\ lex.out.err = "") =>
                Top(lex.out.levels) = LeadingSpaces(LastLine)


CountOf(tokens, type, n) == Cardinality({i \in 1..n : tokens[i].type = type})
Returned_ == lex.op # "none" /\ lex.out.err = ""
OpenAtEnd == Len(lex.out.levels) - 1

\* C17: in every token list that tokenize returns there are as many INDENT
\* as DEDENT tokens, no prefix holds more DEDENTs than INDENTs, the levels
\* still open after the last line are closed by that many DEDENT tokens
\* standing directly before EOF, and EOF occurs once, as the last token.
C17_IndentsBalancedEOFLast ==
    Returned_ =>
        /\ CountOf(Tokens, "INDENT", Len(Tokens)) = CountOf(Tokens, "DEDENT", Len(Tokens))
        /\ \A n \in 0..Len(Tokens) :
              CountOf(Tokens, "DEDENT", n) <= CountOf(Tokens, "INDENT", n)
        /\ \A k \in 1..OpenAtEnd : Tokens[Len(Tokens) - k].type = "DEDENT"
        /\ CountOf(Tokens, "INDENT", Len(Tokens) - 1 - OpenAtEnd)
              - CountOf(Tokens, "DEDENT", Len(Tokens) - 1 - OpenAtEnd) = OpenAtEnd
        /\ lex.out.indent_stack = <<0>>
        /\ Tokens[Len(Tokens)].type = "EOF"
        /\ CountOf(Tokens, "EOF", Len(Tokens)) = 1

\* a source that ends two levels deep, after a dedent and a new indent, has
\* been tokenized
C17_Witness ==
    /\ Returned_
    /\ OpenAtEnd = 2
    /\ CountOf(Tokens, "DEDENT", Len(Tokens) - 3) > 0


\* C18: putting a blank line or a comment-only line, however indented, into a
\* source at any place changes nothing in what tokenize does: the same token
\* types and values in the same order (so no NEWLINE, INDENT or DEDENT for
\* the line), the same indent stack after the last line, and the same error
\* if the source cannot be tokenized.
C18_SkippedLinesChangeNothing ==
    lex.op = "insert" =>
        /\ lex.out.err = lex.prev.err
        /\ TypesAndValues(lex.out.tokens) = TypesAndValues(lex.prev.tokens)
        /\ lex.out.levels = lex.prev.levels
        /\ lex.out.indent_stack = lex.prev.indent_stack

\* a comment-only line indented by 2 has been put between a line at level 0
\* and its body at level 4, and the source was tokenized
C18_Witness ==
    /\ lex.op = "insert" /\ lex.out.err = ""
    /\ lex.at = 2 /\ Len(lex.src) = 3
    /\ LeadingSpaces(lex.src[2]) = 2 /\ lstrip(lex.src[2]) # <<>>
    /\ LeadingSpaces(lex.src[1]) = 0 /\ LeadingSpaces(lex.src[3]) = 4
    /\ CountOf(Tokens, "INDENT", Len(Tokens)) = 1


(***************************************************************************)
(* Logical operators (evaluator.py, visit_logical_operation)               *)
(***************************************************************************)
\* the position of the first "logic" event after position i, 0 if none
LogicAfter(i) ==
    IF \E j \in (i + 1)..Len(RunLog) : RunLog[j].e = "logic"
    THEN CHOOSE j \in (i + 1)..Len(RunLog) :
            /\ RunLog[j].e = "logic"
            /\ \A k \in (i + 1)..(j - 1) : RunLog[k].e # "logic"
    ELSE 0

\* the left operand at position i decides the operation on its own
ShortCircuits(i) ==
    \/ RunLog[i].n = 1 /\ ~RunLog[i].val.v
    \/ RunLog[i].n = 2 /\ RunLog[i].val.v

RightsBetween(i, j) == {k \in (i + 1)..(j - 1) : RunLog[k].e = "right"}

\* C19: `a and b` with a falsy is Boolean false, `a or b` with a truthy is
\* Boolean true, and in both cases nothing of b ran: the operation returns in
\* the state in which the truthiness of a was found (same scopes, lists,
\* output, console). In the remaining cases b is evaluated exactly once and
\* the operation returns the Boolean truthiness of the value of b.
C19_LogicalShortCircuit ==
    \A i \in DOMAIN RunLog :
        RunLog[i].e = "left" /\ RunLog[i].n \in {1, 2} =>
            LET j == LogicAfter(i)
            IN /\ j # 0
               /\ RunLog[j].val.t = "boolean"
               /\ IF ShortCircuits(i)
                  THEN /\ j = i + 1
                       /\ RunLog[j].val = HBoolean(RunLog[i].n = 2)
                       /\ RunLog[j].snap = RunLog[i].snap
                  ELSE /\ RightsBetween(i, j) = {j - 1}
                       /\ Cardinality({k \in (i + 1)..(j - 1) : RunLog[k].e = "exit"}) = 1
                       /\ RunLog[j].val =
                             HBoolean(is_truthy(RunLog[j - 1].val, RunLog[j - 1].snap.lists))

\* The program ran to its end: the short-circuited operands left no echo and
\* no write (t is still 0), the evaluated ones echoed once each and the
\* results are true, false, true although b returned 5, 0 and "k".
C19_Witness ==
    /\ nexec = 1
    /\ run.sig = "normal"
    /\ Programs[run.prog] = ProgShortCircuit
    /\ console = <<"false", "true", "0", "s", "true", "s", "false", "s", "true", "3">>
    /\ \E i \in DOMAIN RunLog : RunLog[i].e = "left" /\ ShortCircuits(i)
    /\ \E i \in DOMAIN RunLog : RunLog[i].e = "right" /\ RunLog[i].val = HNumber(5)


(***************************************************************************)
(* Equality (primitive.py HValue.__eq__, operations.py Operations.equals)  *)
(***************************************************************************)
\* same runtime type and the same content; lists element by element
RECURSIVE StructurallyEqual(_, _, _)
StructurallyEqual(a, b, ls) ==
    /\ a.t = b.t
    /\ IF a.t = "list"
       THEN /\ Len(ls[a.v]) = Len(ls[b.v])
            /\ \A k \in DOMAIN ls[a.v] : StructurallyEqual(ls[a.v][k], ls[b.v][k], ls)
       ELSE a.v = b.v

EqualsEvents == {i \in DOMAIN RunLog : RunLog[i].e = "equals"}

\* C20: every `==` that was evaluated answered, and the answer is true
\* exactly when the two operands have the same runtime type and are
\* structurally equal; in particular it is false for operands of different
\* types (true and 1, null and 0).
C20_EqualityFalseAcrossTypes ==
    \A i \in EqualsEvents :
        (RunLog[i].n = 1) <=>
            StructurallyEqual(RunLog[i].val[1], RunLog[i].val[2], RunLog[i].snap.lists)


(***************************************************************************)
(* `+` with a string on the left (operations.py, Operations.add)           *)
(***************************************************************************)
\* the `+` at position i of the history has a string on the left and a
\* number, a boolean or a list on the right
StringPlusOther(i) ==
    /\ RunLog[i].e = "add"
    /\ RunLog[i].val[1].t = "string"
    /\ RunLog[i].val[2].t \in {"number", "boolean", "list"}

\* C22: `+` with a String on the left and a Number, Boolean or List on the
\* right returns the string followed by the display form of the right
\* operand, so `echo "Parts count: " + len(parts)` prints Parts count: 3.
C22_StringPlusDisplayForm ==
    \A i \in DOMAIN RunLog :
        StringPlusOther(i) =>
            /\ i < Len(RunLog)
            /\ RunLog[i + 1].e = "added"
            /\ RunLog[i + 1].val =
                  HString(RunLog[i].val[1].v
                            \o to_string(RunLog[i].val[2], RunLog[i].snap.lists))


(***************************************************************************)
(* core/parser.py, the statements: parse(), declaration(), synchronize(),  *)
(* statement(), block() and the statements set, if, while, function,       *)
(* return, echo, end game and the expression statement. A result is        *)
(* [node, has, current, err, log]: the statement (or the statements of a   *)
(* block), whether there is one, the parser's position, the message of the *)
(* exception that left the method ("" when it returned), and the history   *)
(* of the loops and of synchronize(): "top" and "block" for one iteration  *)
(* of the loop of parse() and of block() from position at to position to,  *)
(* "sync" for a synchronize() called at the offending token at and         *)
(* stopping at to. The parser reads only a token's type and value. fuel    *)
(* bounds the iterations: a loop that would not end leaves with NoReturn.  *)
(***************************************************************************)
Done(node, current, log) ==
    [node |-> node, has |-> TRUE, current |-> current, err |-> "", log |-> log]
Failed(message, current, log) ==
    [node |-> <<>>, has |-> FALSE, current |-> current, err |-> message, log |-> log]

\* the exceptions that are no ParseError
NotRecovered == {"NoReturn", "(not modelled)"}

\* advance(): current moves unless the parser is at EOF
Parser_advance(tokens, current) ==
    IF Parser_peek(tokens, current).type = "EOF" THEN current ELSE current + 1

\* the while loop of synchronize()
RECURSIVE sync_loop(_, _)
sync_loop(tokens, current) ==
    IF Parser_peek(tokens, current).type
            \in {"EOF", "NEWLINE", "SET", "IF", "WHILE", "FUNCTION", "RETURN", "FOR",
                 "TEST", "ASSERT"}
    THEN current
    ELSE sync_loop(tokens, Parser_advance(tokens, current))

\* a variant that does not step over the offending token first
synchronize_in_place(tokens, current) == sync_loop(tokens, current)

synchronize(tokens, current) == sync_loop(tokens, Parser_advance(tokens, current))

\* a statement made of a keyword and one expression
with_expr(r, Node(_)) ==
    IF r.err # "" THEN Failed(r.err, r.current, <<>>)
    ELSE Done(Node(r.expr), r.current, <<>>)

\* an expression and the COLON consumed after it
colon(tokens, r, message) ==
    IF r.err # "" THEN Failed(r.err, r.current, <<>>)
    ELSE IF ~Parser_check(tokens, r.current, {"COLON"})
    THEN Failed(message, r.current, <<>>)
    ELSE Done(r.expr, r.current + 1, <<>>)

\* lvalue() without property chains and index brackets, consume(TO), expression()
assignment_statement(tokens, current) ==
    IF ~Parser_check(tokens, current, {"GLOBAL_VAR", "IDENTIFIER"})
    THEN Failed("Expected identifier or global variable", current, <<>>)
    ELSE IF Parser_check(tokens, current + 1, {"DOT", "LBRACKET"})
    THEN Failed("(not modelled)", current + 1, <<>>)
    ELSE IF ~Parser_check(tokens, current + 1, {"TO"})
    THEN Failed("Expected 'to' after assignment target", current + 1, <<>>)
    ELSE with_expr(expression(tokens, current + 2),
            LAMBDA v : Assignment(
                IF Parser_peek(tokens, current).type = "GLOBAL_VAR"
                THEN GlobalVariable(Parser_peek(tokens, current).value)
                ELSE Identifier(Parser_peek(tokens, current).value), v))

\* check(EOF) is never true, so `return` before EOF goes on to expression()
return_statement(tokens, current) ==
    IF Parser_check(tokens, current, {"NEWLINE", "DEDENT"})
    THEN Done(ReturnStatement(FALSE, Literal("None")), current, <<>>)
    ELSE with_expr(expression(tokens, current), LAMBDA v : ReturnStatement(TRUE, v))

echo_statement(tokens, current) ==
    with_expr(expression(tokens, current), LAMBDA e : EchoStatement(e))


end_game_statement(tokens, current) ==
    IF Parser_check(tokens, current, {"GAME"})
    THEN Done(EndGameStatement, current + 1, <<>>)
    ELSE Failed("Expected 'game' after 'end'", current, <<>>)

expression_statement(tokens, current) ==
    with_expr(expression(tokens, current), LAMBDA e : ExpressionStatement(e))

\* the statements statement() dispatches to that are not modelled
OtherStatements == {"ASK", "INCREASE", "DECREASE", "ADD", "REMOVE", "MOVE", "WAIT",
                    "START", "STOP", "PERFORM", "RUN", "TEST", "ASSERT"}

RECURSIVE declaration(_, _, _), statement(_, _, _), block_loop(_, _, _, _, _),
          if_rest(_, _, _, _, _, _, _)

\* declaration() once the statement returned or raised: a ParseError is
\* caught, synchronize() runs and None is returned
recovered(tokens, r) ==
    IF r.err = "" \/ r.err \in NotRecovered THEN r
    ELSE [node |-> <<>>, has |-> FALSE, current |-> synchronize(tokens, r.current),
          err |-> "",
          log |-> Append(r.log, [e |-> "sync", at |-> r.current,
                                 to |-> synchronize(tokens, r.current)])]

\* one iteration of the loop of block() that called declaration(), done
block_next(tokens, current, statements, log, fuel, d) ==
    IF d.err # "" THEN Failed(d.err, d.current, log \o d.log)
    ELSE block_loop(tokens, d.current,
                    IF d.has THEN Append(statements, d.node) ELSE statements,
                    Append(log \o d.log, [e |-> "block", at |-> current, to |-> d.current]),
                    fuel - 1)

\* while not self.is_at_end() and not self.check(DEDENT), then the DEDENT
block_loop(tokens, current, statements, log, fuel) ==
    IF Parser_peek(tokens, current).type = "EOF" THEN Done(statements, current, log)
    ELSE IF Parser_peek(tokens, current).type = "DEDENT"
    THEN Done(statements, current + 1, log)
    ELSE IF fuel = 0 THEN Failed("NoReturn", current, log)
    ELSE IF Parser_peek(tokens, current).type = "NEWLINE"
    THEN block_loop(tokens, current + 1, statements,
                    Append(log, [e |-> "block", at |-> current, to |-> current + 1]),
                    fuel - 1)
    ELSE block_next(tokens, current, statements, log, fuel,
                    declaration(tokens, current, fuel - 1))

\* block() after the optional NEWLINE
block_indent(tokens, current, fuel) ==
    IF ~Parser_check(tokens, current, {"INDENT"})
    THEN Failed("Expected indented block", current, <<>>)
    ELSE block_loop(tokens, current + 1, <<>>, <<>>, fuel)

block(tokens, current, fuel) ==
    block_indent(tokens,
                 IF Parser_check(tokens, current, {"NEWLINE"}) THEN current + 1
                 ELSE current, fuel)

\* a header h and the block b after it
with_block(h, b, log, Node(_, _)) ==
    IF b.err # "" THEN Failed(b.err, b.current, log \o b.log)
    ELSE Done(Node(h, b.node), b.current, log \o b.log)

\* `else if <condition>:` with the condition and the colon parsed
elif_branch(tokens, h, condition, then_branch, elif_branches, log, fuel, b) ==
    IF b.err # "" THEN Failed(b.err, b.current, log \o b.log)
    ELSE if_rest(tokens, b.current, condition, then_branch,
                 Append(elif_branches, <<h.node, b.node>>), log \o b.log, fuel)

elif_header(tokens, h, condition, then_branch, elif_branches, log, fuel) ==
    IF h.err # "" THEN Failed(h.err, h.current, log)
    ELSE elif_branch(tokens, h, condition, then_branch, elif_branches, log, fuel,
                     block(tokens, h.current, fuel))

\* while self.check(ELSE) of if_statement()
if_rest(tokens, current, condition, then_branch, elif_branches, log, fuel) ==
    IF ~Parser_check(tokens, current, {"ELSE"})
    THEN Done(IfStatement(condition, then_branch, elif_branches, <<>>), current, log)
    ELSE IF Parser_check(tokens, current + 1, {"IF"})
    THEN elif_header(tokens,
                     colon(tokens, expression(tokens, current + 2),
                           "Expected ':' after else if condition"),
                     condition, then_branch, elif_branches, log, fuel)
    ELSE IF ~Parser_check(tokens, current + 1, {"COLON"})
    THEN Failed("Expected ':' after else", current + 1, log)
    ELSE with_block(condition, block(tokens, current + 2, fuel), log,
                    LAMBDA c, else_branch :
                        IfStatement(c, then_branch, elif_branches, else_branch))

if_then(tokens, h, b, fuel) ==
    IF b.err # "" THEN b
    ELSE if_rest(tokens, b.current, h.node, b.node, <<>>, b.log, fuel)

if_header(tokens, h, fuel) ==
    IF h.err # "" THEN h ELSE if_then(tokens, h, block(tokens, h.current, fuel), fuel)

if_statement(tokens, current, fuel) ==
    if_header(tokens, colon(tokens, expression(tokens, current),
                            "Expected ':' after if condition"), fuel)

while_header(tokens, h, fuel) ==
    IF h.err # "" THEN h
    ELSE with_block(h.node, block(tokens, h.current, fuel), <<>>,
                    LAMBDA condition, body : WhileStatement(condition, body))

while_statement(tokens, current, fuel) ==
    while_header(tokens, colon(tokens, expression(tokens, current),
                               "Expected ':' after while condition"), fuel)

\* function <name>: ... ; a parameter list in parentheses is not modelled
function_definition(tokens, current, fuel) ==
    IF ~Parser_check(tokens, current, {"IDENTIFIER"})
    THEN Failed("Expected function name", current, <<>>)
    ELSE IF Parser_check(tokens, current + 1, {"LPAREN"})
    THEN Failed("(not modelled)", current + 1, <<>>)
    ELSE IF ~Parser_check(tokens, current + 1, {"COLON"})
    THEN Failed("Expected ':' after function signature", current + 1, <<>>)
    ELSE with_block(Parser_peek(tokens, current).value,
                    block(tokens, current + 2, fuel), <<>>,
                    LAMBDA name, body : FunctionDefinition(name, <<>>, body))

\* the chain of self.match(...) of statement(); FOR is consumed and ignored
statement(tokens, current, fuel) ==
    CASE Parser_check(tokens, current, {"SET"}) ->
            assignment_statement(tokens, current + 1)
      [] Parser_check(tokens, current, {"IF"}) -> if_statement(tokens, current + 1, fuel)
      [] Parser_check(tokens, current, {"WHILE"}) ->
            while_statement(tokens, current + 1, fuel)
      [] Parser_check(tokens, current, {"RETURN"}) -> return_statement(tokens, current + 1)
      [] Parser_check(tokens, current, {"ECHO"}) -> echo_statement(tokens, current + 1)
      [] Parser_check(tokens, current, {"END"}) ->
            end_game_statement(tokens, current + 1)
      [] Parser_check(tokens, current, OtherStatements) ->
            Failed("(not modelled)", current, <<>>)
      [] Parser_check(tokens, current, {"FOR"}) ->
            expression_statement(tokens, current + 1)
      [] OTHER -> expression_statement(tokens, current)

declaration(tokens, current, fuel) ==
    recovered(tokens,
              IF Parser_check(tokens, current, {"FUNCTION"})
              THEN function_definition(tokens, current + 1, fuel)
              ELSE statement(tokens, current, fuel))

RECURSIVE parse_loop(_, _, _, _, _)

\* one iteration of the loop of parse() that called declaration(), done.
\* declaration() lets no ParseError through, so the handler of parse() is
\* never entered.
parse_next(tokens, current, statements, log, fuel, d) ==
    IF d.err # "" THEN Failed(d.err, d.current, log \o d.log)
    ELSE parse_loop(tokens, d.current,
                    IF d.has THEN Append(statements, d.node) ELSE statements,
                    Append(log \o d.log, [e |-> "top", at |-> current, to |-> d.current]),
                    fuel - 1)

\* a variant whose top-level loop skips NEWLINE only
parse_loop_newline_only(tokens, current, statements, log, fuel) ==
    IF Parser_peek(tokens, current).type = "EOF" THEN Done(statements, current, log)
    ELSE IF fuel = 0 THEN Failed("NoReturn", current, log)
    ELSE IF Parser_peek(tokens, current).type = "NEWLINE"
    THEN parse_loop(tokens, current + 1, statements,
                    Append(log, [e |-> "top", at |-> current, to |-> current + 1]),
                    fuel - 1)
    ELSE parse_next(tokens, current, statements, log, fuel,
                    declaration(tokens, current, fuel - 1))

\* while not self.is_at_end() of parse()
parse_loop(tokens, current, statements, log, fuel) ==
    IF Parser_peek(tokens, current).type = "EOF" THEN Done(statements, current, log)
    ELSE IF fuel = 0 THEN Failed("NoReturn", current, log)
    ELSE IF Parser_peek(tokens, current).type \in {"NEWLINE", "INDENT", "DEDENT"}
    THEN parse_loop(tokens, current + 1, statements,
                    Append(log, [e |-> "top", at |-> current, to |-> current + 1]),
                    fuel - 1)
    ELSE parse_next(tokens, current, statements, log, fuel,
                    declaration(tokens, current, fuel - 1))

\* Parser(tokens).parse(): node holds program.statements
Parser_parse(tokens) == parse_loop(tokens, 0, <<>>, <<>>, Len(tokens) + 1)


(***************************************************************************)
(* SpecParse: Parser(tokens).parse() applied to token lists. The host      *)
(* builds a list token by token from an alphabet, so every list of up to   *)
(* MaxTokens tokens is parsed, well-formed or not, or takes one of the     *)
(* token lists of Sources, which the lexer would give for the text in the  *)
(* comments if it read keywords. EOF is appended when the list is parsed.  *)
(***************************************************************************)
MaxTokens == 4

T(type) == Token(type, "None", 1)
Name(x) == Token("IDENTIFIER", x, 1)
Text(x) == Token("STRING", x, 1)

Alphabet == {T("IF"), T("COLON"), T("NEWLINE"), T("INDENT"), T("DEDENT"), T("ECHO"),
             T("SET"), T("TO"), T("ELSE"), Name("x")}

\* set x to           set x to "a"          echo )
\* echo "hi"          echo                  set y to "b"
\*                    set y to "b"
SrcErrorAtNewline ==
    <<T("SET"), Name("x"), T("TO"), T("NEWLINE"), T("ECHO"), Text("hi"), T("NEWLINE")>>
SrcErrorThenSet ==
    <<T("SET"), Name("x"), T("TO"), Text("a"), T("NEWLINE"), T("ECHO"), T("NEWLINE"),
      T("SET"), Name("y"), T("TO"), Text("b"), T("NEWLINE")>>
SrcErrorInLine ==
    <<T("ECHO"), T("RPAREN"), T("NEWLINE"),
      T("SET"), Name("y"), T("TO"), Text("b"), T("NEWLINE")>>

\* if x               while x               function :
\*     echo "a"           echo "a"              echo "a"
\*     echo "b"           echo "b"              set y to "b"
\* echo "c"
SrcIfNoColon ==
    <<T("IF"), Name("x"), T("NEWLINE"), T("INDENT"), T("ECHO"), Text("a"), T("NEWLINE"),
      T("ECHO"), Text("b"), T("NEWLINE"), T("DEDENT"), T("ECHO"), Text("c"),
      T("NEWLINE")>>
SrcWhileNoColon ==
    <<T("WHILE"), Name("x"), T("NEWLINE"), T("INDENT"), T("ECHO"), Text("a"),
      T("NEWLINE"), T("ECHO"), Text("b"), T("NEWLINE"), T("DEDENT")>>
SrcFunctionNoName ==
    <<T("FUNCTION"), T("COLON"), T("NEWLINE"), T("INDENT"), T("ECHO"), Text("a"),
      T("NEWLINE"), T("SET"), Name("y"), T("TO"), Text("b"), T("NEWLINE"), T("DEDENT")>>

\* function f:            if x:
\*     if x                   echo "a"
\*         echo "a"       else:
\*         echo "b"           echo "b"
\*     echo "c"
SrcNestedIfNoColon ==
    <<T("FUNCTION"), Name("f"), T("COLON"), T("NEWLINE"), T("INDENT"),
      T("IF"), Name("x"), T("NEWLINE"), T("INDENT"), T("ECHO"), Text("a"), T("NEWLINE"),
      T("ECHO"), Text("b"), T("NEWLINE"), T("DEDENT"), T("ECHO"), Text("c"),
      T("NEWLINE"), T("DEDENT")>>
SrcIfElse ==
    <<T("IF"), Name("x"), T("COLON"), T("NEWLINE"), T("INDENT"), T("ECHO"), Text("a"),
      T("NEWLINE"), T("DEDENT"), T("ELSE"), T("COLON"), T("NEWLINE"), T("INDENT"),
      T("ECHO"), Text("b"), T("NEWLINE"), T("DEDENT")>>

Sources == {SrcErrorAtNewline, SrcErrorThenSet, SrcErrorInLine, SrcIfNoColon,
            SrcWhileNoColon, SrcFunctionNoName, SrcNestedIfNoColon, SrcIfElse}

InitParse ==
    /\ scopes = <<Environment(None)>>
    /\ env = 1
    /\ frames = <<>>
    /\ last = [op |-> "init", name |-> "", ok |-> TRUE, val |-> HNull,
               env |-> 1, pre |-> <<>>, written |-> {}, assigned |-> {}]
    /\ gshadow = EmptyMap
    /\ nops = 0
    /\ lists = <<>>
    /\ output_buffer = <<>>
    /\ console = <<>>
    /\ output_history = <<>>
    /\ test_results = <<>>
    /\ run = [prog |-> 0, sig |-> "none", val |-> HNull, log |-> <<>>,
               calls |-> <<>>,
               out0 |-> 0, final |-> <<>>]
    /\ mark = 0
    /\ failed = FALSE
    /\ nexec = 0
    /\ PureIdle

\* the host adds one token to the list it is building
Put(token) ==
    /\ par.op = "none"
    /\ Len(par.tokens) < MaxTokens
    /\ par' = [par EXCEPT !.tokens = Append(@, token)]
    /\ UNCHANGED <<scopes, env, envVars, evalVars, lop, lex, hostVars>>

\* the host takes the tokens of a source
Take(source) ==
    /\ par.op = "none"
    /\ par.tokens = <<>>
    /\ par' = [par EXCEPT !.tokens = source]
    /\ UNCHANGED <<scopes, env, envVars, evalVars, lop, lex, hostVars>>

\* Parser(tokens).parse()
Parse ==
    /\ par.op = "none"
    /\ par' = [par EXCEPT !.op = "parse",
                          !.tokens = Append(@, T("EOF")),
                          !.out = Parser_parse(Append(par.tokens, T("EOF")))]
    /\ UNCHANGED <<scopes, env, envVars, evalVars, lop, lex, hostVars>>

NextParse ==
    \/ \E token \in Alphabet : Put(token)
    \/ \E source \in Sources : Take(source)
    \/ Parse

SpecParse == InitParse /\ [][NextParse]_vars


(***************************************************************************)
(* Properties of SpecParse.                                                *)
(***************************************************************************)
ParsedAll == par.op = "parse"
ParseLog == par.out.log
Syncs == {i \in DOMAIN ParseLog : ParseLog[i].e = "sync"}

\* the first NEWLINE at or after position p (EOF if there is none)
RECURSIVE LineEnd(_, _)
LineEnd(tokens, p) ==
    IF Parser_peek(tokens, p).type \in {"NEWLINE", "EOF"} THEN p
    ELSE LineEnd(tokens, p + 1)

\* no block has been opened before position p
AtTopLevel(tokens, p) == \A i \in 1..p : tokens[i].type # "INDENT"

\* a statement starts right after the line that holds position p, and it
\* parses without error; the parser is then at the end of that line
WellFormedNextLine(tokens, p) ==
    LET start == LineEnd(tokens, p) + 1
    IN /\ AtTopLevel(tokens, start)
       /\ Parser_peek(tokens, start).type \notin {"EOF", "NEWLINE", "INDENT", "DEDENT"}
       /\ declaration(tokens, start, Len(tokens)).has
       /\ declaration(tokens, start, Len(tokens)).log = <<>>

NextLineStatement(tokens, p) ==
    declaration(tokens, LineEnd(tokens, p) + 1, Len(tokens)).node

\* C23: parse() returns (no ParseError reaches the caller); every
\* synchronize() stops at the first NEWLINE or statement-starting keyword at
\* or after the offending token; a well-formed statement on the line after
\* the erroneous line is among the statements of the returned Program.
C23_ResumesAtNextLine ==
    ParsedAll =>
        /\ par.out.err = ""
        /\ \A i \in Syncs :
              /\ ParseLog[i].to = sync_loop(par.tokens, ParseLog[i].at)
              /\ WellFormedNextLine(par.tokens, ParseLog[i].at) =>
                    \E k \in DOMAIN par.out.node :
                        par.out.node[k] = NextLineStatement(par.tokens, ParseLog[i].at)


\* the iterations of the loop of parse() and of the loop of block()
Iterations == {i \in DOMAIN ParseLog : ParseLog[i].e \in {"top", "block"}}
OffendingEOF(i) == Parser_peek(par.tokens, ParseLog[i].at).type = "EOF"

\* C29 as stated: parse() returns on every token list that ends in EOF,
\* every iteration of the top-level loop and of the block loop consumes at
\* least one token, and every synchronize() leaves the parser past the
\* offending token.
C29_SynchronizeAlwaysAdvances ==
    ParsedAll =>
        /\ par.out.err # "NoReturn"
        /\ \A i \in Iterations : ParseLog[i].to > ParseLog[i].at
        /\ \A i \in Syncs : ParseLog[i].to > ParseLog[i].at

\* C29 amended: parse() returns on every token list that ends in EOF, every
\* iteration of the top-level loop and of the block loop consumes at least
\* one token, and synchronize() leaves the parser past the offending token
\* unless that token is EOF, where it stays.
C29_ParseTerminates ==
    ParsedAll =>
        /\ par.out.err # "NoReturn"
        /\ \A i \in Iterations : ParseLog[i].to > ParseLog[i].at
        /\ \A i \in Syncs :
              IF OffendingEOF(i) THEN ParseLog[i].to = ParseLog[i].at
              ELSE ParseLog[i].to > ParseLog[i].at

C29_Witness ==
    /\ ParsedAll
    /\ par.out.err = ""
    /\ \E i \in Syncs : ~OffendingEOF(i) /\ ParseLog[i].to > ParseLog[i].at
    /\ \E i \in Iterations : ParseLog[i].e = "block"
    /\ \E i \in Iterations : ParseLog[i].e = "top"


\* the synchronize() calls made for an if, while or function whose header
\* line failed: the iteration that called declaration() is logged right
\* after the sync event and began at the keyword, and the offending token is
\* on the line of the keyword
Header(i) == ParseLog[i + 1].at
HeaderFailures ==
    {i \in Syncs :
        /\ i + 1 \in Iterations
        /\ Parser_peek(par.tokens, Header(i)).type \in {"IF", "WHILE", "FUNCTION"}
        /\ ParseLog[i].at <= LineEnd(par.tokens, Header(i))}

\* where the statements of a block begin whose first one begins at p
RECURSIVE BodyStarts(_, _)
BodyStarts(tokens, p) ==
    IF Parser_peek(tokens, p).type \in {"EOF", "DEDENT"} THEN {}
    ELSE IF Parser_peek(tokens, p).type = "NEWLINE" THEN BodyStarts(tokens, p + 1)
    ELSE {p} \cup BodyStarts(tokens, declaration(tokens, p, Len(tokens)).current)

\* the statements of the indented body under the header of failure i that
\* begin at or after the point where synchronize() stopped and parse cleanly
Body(i) ==
    LET indent == LineEnd(par.tokens, Header(i)) + 1
    IN IF Parser_peek(par.tokens, indent).type # "INDENT" THEN {}
       ELSE {p \in BodyStarts(par.tokens, indent + 1) :
                /\ p >= ParseLog[i].to
                /\ declaration(par.tokens, p, Len(par.tokens)).has
                /\ \A k \in DOMAIN declaration(par.tokens, p, Len(par.tokens)).log :
                      declaration(par.tokens, p, Len(par.tokens)).log[k].e # "sync"}

\* the statement at p was parsed by exactly one iteration of the loop named
\* by e, and by no iteration of the other loop
ParsedOnceBy(e, p) ==
    /\ Cardinality({j \in Iterations : ParseLog[j].at = p}) = 1
    /\ \E j \in Iterations :
          /\ ParseLog[j].at = p
          /\ ParseLog[j].e = e
          /\ ParseLog[j].to = declaration(par.tokens, p, Len(par.tokens)).current

InProgram(p) ==
    \E k \in DOMAIN par.out.node :
        par.out.node[k] = declaration(par.tokens, p, Len(par.tokens)).node

EchoedNow == SubSeq(console', Len(console) + 1, Len(console'))

\* C28: an execute() that raises leaves the output history as it was and
\* leaves its echoes in the evaluator's buffer behind what the buffer held;
\* an execute() that returns appends the buffer left by failed calls and then
\* its own echoes to the history, and empties the buffer.
C28_FailedOutputCarriedOver ==
    [][nexec' = nexec + 1 =>
         IF run'.sig = "error"
         THEN /\ output_history' = output_history
              /\ output_buffer' = output_buffer \o EchoedNow
         ELSE /\ output_history' = output_history \o output_buffer \o EchoedNow
              /\ output_buffer' = <<>>]_vars

\* a failed execute() that echoed, then a successful one that echoed
C28_Witness ==
    /\ nexec = 2
    /\ failed
    /\ run.sig = "normal"
    /\ run.out0 > 0
    /\ Len(run.final.out) > run.out0
    /\ Len(output_history) = Len(run.final.out)
    /\ output_buffer = <<>>


\* the user-function calls that ended during the last execute()
Calls == run.calls
CallPaths == {"fall", "return", "raise", "arity", "argument"}

\* C26: whichever way a user-function call ends (falling off the body,
\* return, an error raised in the body, an arity mismatch, an error while an
\* argument is evaluated), at whatever depth, Evaluator.env is then the scope
\* it was when the call began; after execute() it is the root scope.
C26_EnvRestoredOnEveryExit ==
    /\ \A i \in DOMAIN Calls :
          /\ Calls[i].path \in CallPaths
          /\ Calls[i].after = Calls[i].before
    /\ env = 1
    /\ run.sig # "none" => run.final.env = 1

\* one execute() with a call ended each way, a call inside a call, and a
\* function that called itself
C26_Witness ==
    /\ \A path \in CallPaths : \E i \in DOMAIN Calls : Calls[i].path = path
    /\ \E i \in DOMAIN Calls : Calls[i].path = "raise" /\ Calls[i].depth = 0
                               /\ Calls[i].before = 1
    /\ \E i, j \in DOMAIN Calls :
          /\ Calls[i].name = Calls[j].name
          /\ Calls[i].depth = 2
          /\ Calls[j].depth = 1
          /\ Calls[i].before # Calls[j].before
    /\ run.sig = "normal"


\* the `end game` statements the execute() of this step ran outside every
\* test block, at top level or in a called function
EndGames ==
    {i \in DOMAIN run'.log :
        /\ run'.log[i].e = "endgame"
        /\ \A q \in DOMAIN run'.log[i].ctx : run'.log[i].ctx[q] # "test"}

MaxTimers == 2

\* Timer.__init__ and Timer.start: _cancelled = False, the threading.Timer is
\* made (its finished event not set) and its thread started
Timer(name) ==
    [name |-> name, _cancelled |-> FALSE, finished |-> FALSE, pc |-> "wait", calls |-> 0]

InitTimer ==
    /\ scopes = <<Environment(None)>>
    /\ env = 1
    /\ frames = <<>>
    /\ last = [op |-> "init", name |-> "", ok |-> TRUE, val |-> HNull,
               env |-> 1, pre |-> <<>>, written |-> {}, assigned |-> {}]
    /\ gshadow = EmptyMap
    /\ nops = 0
    /\ lists = <<>>
    /\ output_buffer = <<>>
    /\ console = <<>>
    /\ output_history = <<>>
    /\ test_results = <<>>
    /\ run = [prog |-> 0, sig |-> "none", val |-> HNull, log |-> <<>>,
               calls |-> <<>>,
               out0 |-> 0, final |-> <<>>]
    /\ mark = 0
    /\ failed = FALSE
    /\ nexec = 0
    /\ PureIdle

TimerUnchanged == UNCHANGED <<scopes, env, envVars, evalVars, lop, lex, par, thr>>

\* ActionContext.start_timer(name, seconds, callback)
start_timer(name) ==
    /\ tmr.main.pc = "idle"
    /\ Len(tmr.objs) < MaxTimers
    /\ tmr' = [tmr EXCEPT !.objs = Append(@, Timer(name)),
                          !.timers[name] = Len(tmr.objs) + 1,
                          !.main.ret = "None"]
    /\ TimerUnchanged

\* stop_timer: if name in self.timers ... return False
stop_timer(name) ==
    /\ tmr.main.pc = "idle"
    /\ tmr' = IF tmr.timers[name] = 0
              THEN [tmr EXCEPT !.main = [pc |-> "idle", name |-> name, o |-> 0,
                                         ret |-> "False"]]
              ELSE [tmr EXCEPT !.main = [pc |-> "stop", name |-> name,
                                         o |-> tmr.timers[name], ret |-> "None"]]
    /\ TimerUnchanged

\* Timer.stop: self._cancelled = True
Timer_stop ==
    /\ tmr.main.pc = "stop"
    /\ tmr' = [tmr EXCEPT !.objs[tmr.main.o]._cancelled = TRUE, !.main.pc = "cancel"]
    /\ TimerUnchanged

\* Timer.stop: self._timer.cancel(), which sets the finished event
Timer_cancel ==
    /\ tmr.main.pc = "cancel"
    /\ tmr' = [tmr EXCEPT !.objs[tmr.main.o].finished = TRUE, !.main.pc = "del"]
    /\ TimerUnchanged

\* stop_timer: del self.timers[name]; return True
stop_timer_return ==
    /\ tmr.main.pc = "del"
    /\ tmr' = [tmr EXCEPT !.timers[tmr.main.name] = 0,
                          !.main.pc = "idle", !.main.ret = "True",
                          !.stops = @ \cup {[o |-> tmr.main.o,
                                             calls |-> tmr.objs[tmr.main.o].calls]}]
    /\ TimerUnchanged

\* the thread of threading.Timer: self.finished.wait(self.interval) returns,
\* the interval being over or the event set
Expire(o) ==
    /\ tmr.objs[o].pc = "wait"
    /\ tmr' = [tmr EXCEPT !.objs[o].pc = "woke"]
    /\ TimerUnchanged

\* if not self.finished.is_set(): self.function()
CheckFinished(o) ==
    /\ tmr.objs[o].pc = "woke"
    /\ tmr' = [tmr EXCEPT !.objs[o].pc = IF tmr.objs[o].finished THEN "done"
                                         ELSE "_on_expire"]
    /\ TimerUnchanged

\* Timer._on_expire: if not self._cancelled:
CheckCancelled(o) ==
    /\ tmr.objs[o].pc = "_on_expire"
    /\ tmr' = [tmr EXCEPT !.objs[o].pc = IF tmr.objs[o]._cancelled THEN "set"
                                         ELSE "callback"]
    /\ TimerUnchanged

\* Timer._on_expire: self.callback()
Callback(o) ==
    /\ tmr.objs[o].pc = "callback"
    /\ tmr' = [tmr EXCEPT !.objs[o].pc = "set", !.objs[o].calls = @ + 1]
    /\ TimerUnchanged

\* the thread of threading.Timer: self.finished.set(), and the thread ends
SetFinished(o) ==
    /\ tmr.objs[o].pc = "set"
    /\ tmr' = [tmr EXCEPT !.objs[o].pc = "done", !.objs[o].finished = TRUE]
    /\ TimerUnchanged

NextTimer ==
    \/ \E name \in TimerNames : start_timer(name)
    \/ \E name \in TimerNames : stop_timer(name)
    \/ Timer_stop
    \/ Timer_cancel
    \/ stop_timer_return
    \/ \E o \in DOMAIN tmr.objs : Expire(o)
    \/ \E o \in DOMAIN tmr.objs : CheckFinished(o)
    \/ \E o \in DOMAIN tmr.objs : CheckCancelled(o)
    \/ \E o \in DOMAIN tmr.objs : Callback(o)
    \/ \E o \in DOMAIN tmr.objs : SetFinished(o)

SpecTimer == InitTimer /\ [][NextTimer]_vars

\* C25: once stop_timer(name) has returned True for a Timer whose callback
\* had not been invoked by then, the callback of that Timer is not invoked,
\* whatever its thread was doing, and the registry no longer maps a name to
\* that Timer.
C25_NoCallbackAfterStop ==
    \A s \in tmr.stops :
        /\ s.calls = 0 => tmr.objs[s.o].calls = 0
        /\ \A name \in TimerNames : tmr.timers[name] # s.o


(***************************************************************************)
(* SpecThreads: Evaluator._call_function entered by the thread that runs   *)
(* the program and by the thread of a `run in parallel` block, on the one  *)
(* evaluator. scopes and env are the evaluator's; thr.stacks holds, for    *)
(* each thread, the activations it is inside, innermost last, each with    *)
(* its locals func_env and previous_env and the place it is at. The two    *)
(* threads take their steps in any order.                                  *)
(***************************************************************************)
MaxCalls == 3

InitThreads ==
    /\ scopes = <<Environment(None)>>
    /\ env = 1
    /\ frames = <<>>
    /\ last = [op |-> "init", name |-> "", ok |-> TRUE, val |-> HNull,
               env |-> 1, pre |-> <<>>, written |-> {}, assigned |-> {}]
    /\ gshadow = EmptyMap
    /\ nops = 0
    /\ lists = <<>>
    /\ output_buffer = <<>>
    /\ console = <<>>
    /\ output_history = <<>>
    /\ test_results = <<>>
    /\ run = [prog |-> 0, sig |-> "none", val |-> HNull, log |-> <<>>,
               calls |-> <<>>,
               out0 |-> 0, final |-> <<>>]
    /\ mark = 0
    /\ failed = FALSE
    /\ nexec = 0
    /\ PureIdle

ThreadsUnchanged == UNCHANGED <<envVars, evalVars, lop, lex, par, tmr>>

\* thread t is running statements: those of the program or of the parallel
\* block, or those of the body of the function it is in
Running(t) ==
    /\ t = "worker" => thr.spawned
    /\ thr.stacks[t] # <<>> => thr.stacks[t][Len(thr.stacks[t])].pc = "body"

At(t, pc) ==
    /\ thr.stacks[t] # <<>>
    /\ thr.stacks[t][Len(thr.stacks[t])].pc = pc

\* visit_parallel_statement on the program's thread: run_parallel makes the
\* thread and starts it
visit_parallel_statement ==
    /\ Running("main")
    /\ ~thr.spawned
    /\ thr' = [thr EXCEPT !.spawned = TRUE]
    /\ UNCHANGED <<scopes, env>>
    /\ ThreadsUnchanged

\* _call_function: func_env = Environment(self.env); the function has no
\* parameters
call_enter(t) ==
    /\ Running(t)
    /\ thr.made < MaxCalls
    /\ scopes' = Append(scopes, Environment(env))
    /\ thr' = [thr EXCEPT !.made = @ + 1,
                          !.stacks[t] = Append(@, [func_env |-> Len(scopes) + 1,
                                                   previous_env |-> None,
                                                   pc |-> "save"])]
    /\ UNCHANGED env
    /\ ThreadsUnchanged

\* previous_env = self.env
call_save(t) ==
    /\ At(t, "save")
    /\ thr' = [thr EXCEPT !.stacks[t][Len(thr.stacks[t])] =
                              [@ EXCEPT !.previous_env = env, !.pc = "switch"]]
    /\ UNCHANGED <<scopes, env>>
    /\ ThreadsUnchanged

\* self.env = func_env
call_switch(t) ==
    /\ At(t, "switch")
    /\ env' = thr.stacks[t][Len(thr.stacks[t])].func_env
    /\ thr' = [thr EXCEPT !.stacks[t][Len(thr.stacks[t])].pc = "body"]
    /\ UNCHANGED scopes
    /\ ThreadsUnchanged

\* the body is over, by return or not; finally: self.env = previous_env
call_finally(t) ==
    /\ At(t, "body")
    /\ env' = thr.stacks[t][Len(thr.stacks[t])].previous_env
    /\ thr' = [thr EXCEPT !.stacks[t] = SubSeq(@, 1, Len(@) - 1)]
    /\ UNCHANGED scopes
    /\ ThreadsUnchanged

NextThreads ==
    \/ visit_parallel_statement
    \/ \E t \in Threads : call_enter(t)
    \/ \E t \in Threads : call_save(t)
    \/ \E t \in Threads : call_switch(t)
    \/ \E t \in Threads : call_finally(t)

SpecThreads == InitThreads /\ [][NextThreads]_vars

\* C27: when no thread is inside a user-function call, Evaluator.env is the
\* root scope, whichever way the steps of the calls of the two threads were
\* interleaved.
C27_EnvRootWhenAllReturned ==
    (\A t \in Threads : thr.stacks[t] = <<>>) => env = 1

====
